---- MODULE Spec2Model ----
(***************************************************************************)
(* Job application monitor (monitor.py): the per-message pipeline          *)
(* parse -> contact gate -> classify -> extract -> score -> store ->       *)
(* notify -> reply -> mark processed, the two ledger files it keeps, and   *)
(* the scoring rubric.  Text is modelled as sequences of one-character     *)
(* strings so that substring tests, lower-casing and the e-mail patterns   *)
(* are computed the way the code computes them.                            *)
(***************************************************************************)
EXTENDS Integers, Sequences, FiniteSets, TLC

(***************************************************************************)
(* Bounds of the model                                                     *)
(***************************************************************************)
NumMsgs == 2
MaxRuns == 2
MaxFaults == 1
MaxDay == 2

(***************************************************************************)
(* Text helpers                                                            *)
(***************************************************************************)

LowerLetters == {"a", "b", "c", "d", "e", "f", "g", "h", "i", "j", "k", "l", "m", "n", "o", "p", "q", "r", "s", "t", "u", "v", "w", "x", "y", "z"}
UpperLetters == {"A", "B", "C", "D", "E", "F", "G", "H", "I", "J", "K", "L", "M", "N", "O", "P", "Q", "R", "S", "T", "U", "V", "W", "X", "Y", "Z"}
Digits == {"0", "1", "2", "3", "4", "5", "6", "7", "8", "9"}
LowerChar(c) ==
  CASE c = "A" -> "a"
    [] c = "B" -> "b"
    [] c = "C" -> "c"
    [] c = "D" -> "d"
    [] c = "E" -> "e"
    [] c = "F" -> "f"
    [] c = "G" -> "g"
    [] c = "H" -> "h"
    [] c = "I" -> "i"
    [] c = "J" -> "j"
    [] c = "K" -> "k"
    [] c = "L" -> "l"
    [] c = "M" -> "m"
    [] c = "N" -> "n"
    [] c = "O" -> "o"
    [] c = "P" -> "p"
    [] c = "Q" -> "q"
    [] c = "R" -> "r"
    [] c = "S" -> "s"
    [] c = "T" -> "t"
    [] c = "U" -> "u"
    [] c = "V" -> "v"
    [] c = "W" -> "w"
    [] c = "X" -> "x"
    [] c = "Y" -> "y"
    [] c = "Z" -> "z"
    [] OTHER -> c
Letters == LowerLetters \cup UpperLetters
WordChars == Letters \cup Digits \cup {"_"}
Whitespace == {" ", "\t", "\n"}

\* str.lower()
Lower(s) == [i \in 1..Len(s) |-> LowerChar(s[i])] \o <<>>

\* Python's "sub in s"
Contains(sub, s) ==
  \E i \in 1..(Len(s) - Len(sub) + 1) : SubSeq(s, i, i + Len(sub) - 1) = sub

\* str.strip()
Strip(s) ==
  LET keep == {i \in 1..Len(s) : s[i] \notin Whitespace}
  IN IF keep = {} THEN <<>>
     ELSE LET lo == CHOOSE i \in keep : \A j \in keep : i <= j
              hi == CHOOSE i \in keep : \A j \in keep : j <= i
          IN SubSeq(s, lo, hi)

\* the elements of a list
Range(f) == {f[i] : i \in 1..Len(f)}

\* last index e >= from - 1 such that s[from..e] lies in cls
RunEnd(s, from, cls) ==
  LET stops == {i \in from..Len(s) : s[i] \notin cls}
  IN IF stops = {} THEN Len(s)
     ELSE (CHOOSE i \in stops : \A j \in stops : i <= j) - 1

\* the characters that \s matches
RegexSpace == {" ", "\t", "\n", "\r"}

Min(a, b) == IF a <= b THEN a ELSE b

(***************************************************************************)
(* Sender address: extraction, validation, automated-sender heuristic      *)
(***************************************************************************)
LocalChars == Letters \cup Digits \cup {".", "_", "%", "+", "-"}
DomainChars == Letters \cup Digits \cup {".", "-"}
BareChars == WordChars \cup {".", "-"}

\* ^[a-zA-Z0-9._%+-]+@[a-zA-Z0-9.-]+\.[a-zA-Z]{2,}$
_is_valid_email(e) ==
  /\ e # <<>>
  /\ \E i \in 2..Len(e) : \E j \in (i + 2)..(Len(e) - 2) :
       /\ e[i] = "@"
       /\ \A k \in 1..(i - 1) : e[k] \in LocalChars
       /\ \A k \in (i + 1)..(j - 1) : e[k] \in DomainChars
       /\ e[j] = "."
       /\ \A k \in (j + 1)..Len(e) : e[k] \in Letters

automated_patterns ==
  << <<"n", "o", "r", "e", "p", "l", "y">>,
     <<"n", "o", "-", "r", "e", "p", "l", "y">>,
     <<"n", "o", "_", "r", "e", "p", "l", "y">>,
     <<"d", "o", "n", "o", "t", "r", "e", "p", "l", "y">>,
     <<"d", "o", "-", "n", "o", "t", "-", "r", "e", "p", "l", "y">>,
     <<"d", "o", "_", "n", "o", "t", "_", "r", "e", "p", "l", "y">>,
     <<"a", "u", "t", "o">>,
     <<"a", "u", "t", "o", "m", "a", "t", "e", "d">>,
     <<"b", "o", "t">>,
     <<"r", "o", "b", "o", "t">>,
     <<"n", "o", "t", "i", "f", "i", "c", "a", "t", "i", "o", "n">>,
     <<"n", "o", "t", "i", "f", "y">>,
     <<"a", "l", "e", "r", "t">>,
     <<"m", "a", "i", "l", "e", "r">>,
     <<"d", "a", "e", "m", "o", "n">>,
     <<"s", "e", "r", "v", "e", "r">>,
     <<"a", "c", "a", "d", "e", "m", "i", "c">>,
     <<"p", "r", "e", "m", "i", "u", "m">>,
     <<"s", "e", "r", "v", "i", "c", "e">> >>
automated_domains ==
  << <<"@", "l", "i", "n", "k", "e", "d", "i", "n", ".", "c", "o", "m">>,
     <<"@", "i", "n", "d", "e", "e", "d", ".", "c", "o", "m">>,
     <<"@", "g", "l", "a", "s", "s", "d", "o", "o", "r", ".", "c", "o", "m">>,
     <<"@", "m", "a", "i", "l", "c", "h", "i", "m", "p", ".", "c", "o", "m">>,
     <<"@", "s", "e", "n", "d", "g", "r", "i", "d", ".", "c", "o", "m">>,
     <<"@", "a", "m", "a", "z", "o", "n", "s", "e", "s", ".", "c", "o", "m">> >>

_is_automated_email(e) ==
  /\ e # <<>>
  /\ \/ \E p \in Range(automated_patterns) : Contains(p, Lower(e))
     \/ \E d \in Range(automated_domains) : Contains(d, Lower(e))

\* re.search(r'<(.+?)>', h): leftmost "<", then the nearest ">" at least
\* two places further on; the group between them
AngleGroup(h) ==
  LET opens == {p \in 1..Len(h) : h[p] = "<" /\ \E q \in (p + 2)..Len(h) : h[q] = ">"}
  IN IF opens = {} THEN <<>>
     ELSE LET p == CHOOSE x \in opens : \A y \in opens : x <= y
              q == CHOOSE x \in (p + 2)..Len(h) :
                     h[x] = ">" /\ \A y \in (p + 2)..(x - 1) : h[y] # ">"
          IN SubSeq(h, p + 1, q - 1)

\* re.search(r'[\w\.-]+@[\w\.-]+\.\w+', h): the match starting at s, or <<>>
BareMatchAt(h, s) ==
  LET a == RunEnd(h, s, BareChars) + 1
  IN IF a = s \/ a > Len(h) \/ h[a] # "@" THEN <<>>
     ELSE LET b == RunEnd(h, a + 1, BareChars)
              dots == {d \in (a + 2)..(b - 1) : h[d] = "." /\ h[d + 1] \in WordChars}
          IN IF dots = {} THEN <<>>
             ELSE LET d == CHOOSE x \in dots : \A y \in dots : y <= x
                  IN SubSeq(h, s, RunEnd(h, d + 1, WordChars))

BareGroup(h) ==
  LET starts == {s \in 1..Len(h) : BareMatchAt(h, s) # <<>>}
  IN IF starts = {} THEN <<>>
     ELSE BareMatchAt(h, CHOOSE x \in starts : \A y \in starts : x <= y)

extract_email(from_header) ==
  CHOOSE r \in {IF g[1] # <<>> /\ _is_valid_email(g[3]) THEN g[3]
                ELSE IF g[2] # <<>> /\ _is_valid_email(g[4]) THEN g[4]
                ELSE <<>> :
                g \in {<<g1, g2, Strip(g1), Strip(g2)>> :
                         <<g1, g2>> \in {<<AngleGroup(from_header),
                                           BareGroup(from_header)>>}}} : TRUE


(***************************************************************************)
(* Classifier                                                              *)
(* A message is a record [raw_ok, from, subject, parts]; a part is a       *)
(* record [multipart, disp, filename, text]: disp tells whether the part   *)
(* carries a Content-Disposition header, text is what parsing the saved    *)
(* attachment yields (empty when the parser fails).                        *)
(***************************************************************************)
application_keywords ==
  << <<"a", "p", "p", "l", "y">>,
     <<"a", "p", "p", "l", "i", "c", "a", "t", "i", "o", "n">>,
     <<"r", "e", "s", "u", "m", "e">>,
     <<"c", "v">>,
     <<"j", "o", "b">>,
     <<"p", "o", "s", "i", "t", "i", "o", "n">>,
     <<"h", "i", "r", "i", "n", "g">>,
     <<"v", "a", "c", "a", "n", "c", "y">>,
     <<"c", "a", "r", "e", "e", "r">>,
     <<"o", "p", "p", "o", "r", "t", "u", "n", "i", "t", "y">>,
     <<"r", "o", "l", "e">> >>
cv_extensions == << <<".", "p", "d", "f">>, <<".", "d", "o", "c">>, <<".", "d", "o", "c", "x">> >>
cv_name_keywords == << <<"c", "v">>, <<"r", "e", "s", "u", "m", "e">>, <<"c", "u", "r", "r", "i", "c", "u", "l", "u", "m">>, <<"v", "i", "t", "a", "e">> >>
job_portal_domains ==
  << <<"l", "i", "n", "k", "e", "d", "i", "n", ".", "c", "o", "m">>,
     <<"i", "n", "d", "e", "e", "d", ".", "c", "o", "m">>,
     <<"g", "l", "a", "s", "s", "d", "o", "o", "r", ".", "c", "o", "m">>,
     <<"r", "o", "z", "e", "e", ".", "p", "k">>,
     <<"b", "a", "y", "t", ".", "c", "o", "m">>,
     <<"n", "a", "u", "k", "r", "i", "g", "u", "l", "f", ".", "c", "o", "m">>,
     <<"m", "o", "n", "s", "t", "e", "r", ".", "c", "o", "m">> >>

is_job_application(subject, msg) ==
  \/ \E kw \in Range(application_keywords) : Contains(kw, Lower(subject))
  \/ \E i \in 1..Len(msg.parts) :
       LET filename_lower == Lower(msg.parts[i].filename)
       IN /\ msg.parts[i].filename # <<>>
          /\ \E ext \in Range(cv_extensions) : Contains(ext, filename_lower)
          /\ \E kw \in Range(cv_name_keywords) : Contains(kw, filename_lower)
  \/ \E d \in Range(job_portal_domains) : Contains(d, Lower(msg.from))

(***************************************************************************)
(* Regular-expression matching as re.search performs it: the match starts  *)
(* at the leftmost position where one exists, and among the ways to match  *)
(* from there the backtracking order decides (greedy quantifiers try the   *)
(* longest repetition first, lazy ones the shortest).  A list of positions *)
(* holds, in that order, the places where the pattern read so far can end. *)
(***************************************************************************)
RECURSIVE Concat(_)
Concat(ss) == IF ss = <<>> THEN <<>> ELSE Head(ss) \o Concat(Tail(ss))

\* does the lowercase word w stand at position p of t
At(t, w, p) == p + Len(w) - 1 <= Len(t) /\ SubSeq(t, p, p + Len(w) - 1) = w

\* A pattern is a list of steps.  A step is a character class repeated lo
\* to hi times, greedily, or a choice between patterns, tried in order.
Unbounded == 0 - 1
Rep(cls, lo, hi) == [cls |-> cls, lo |-> lo, hi |-> hi, alts |-> <<>>]
Alt(alts) == [cls |-> {}, lo |-> 0, hi |-> 0, alts |-> alts]
Word(w) == [i \in 1..Len(w) |-> Rep({w[i]}, 1, 1)]

\* the ends of a repetition that starts at p, the longest first
Reps(t, st, p) ==
  LET run == RunEnd(t, p, st.cls) - p + 1
      top == IF st.hi = Unbounded THEN run ELSE Min(run, st.hi)
  IN IF top < st.lo THEN <<>>
     ELSE [c \in 1..(top - st.lo + 1) |-> p + top - c + 1]

RECURSIVE Run(_, _, _)
\* the ends of one step that starts at p
StepAt(t, st, p) ==
  IF st.alts = <<>> THEN Reps(t, st, p)
  ELSE Concat([a \in 1..Len(st.alts) |-> Run(t, st.alts[a], <<p>>)])

\* the ends of a pattern read from the positions ps
Run(t, steps, ps) ==
  IF steps = <<>> THEN ps
  ELSE Run(t, Tail(steps), Concat([k \in 1..Len(ps) |-> StepAt(t, Head(steps), ps[k])]))

\* re.search(...).group(0): the leftmost start with a match and the end the
\* backtracking order gives it; empty when there is no match
FirstMatch(t, steps) ==
  LET starts == {s \in 1..(Len(t) + 1) : Run(t, steps, <<s>>) # <<>>}
  IN IF starts = {} THEN <<>>
     ELSE LET s == CHOOSE s \in starts : \A r \in starts : s <= r
          IN SubSeq(t, s, Run(t, steps, <<s>>)[1] - 1)

(***************************************************************************)
(* Phone number                                                            *)
(***************************************************************************)
\* r'\+?\d{1,3}[-.\s]?\(?\d{3}\)?[-.\s]?\d{3}[-.\s]?\d{4}'
PhoneGrouped ==
  LET sep == Rep({"-", "."} \cup RegexSpace, 0, 1)
  IN <<Rep({"+"}, 0, 1), Rep(Digits, 1, 3), sep, Rep({"("}, 0, 1), Rep(Digits, 3, 3),
       Rep({")"}, 0, 1), sep, Rep(Digits, 3, 3), sep, Rep(Digits, 4, 4)>>

\* the first pattern that re.search finds in the text gives the number; the
\* second pattern is r'\+?\d{10,15}'
PhoneIn(body) ==
  IF FirstMatch(body, PhoneGrouped) # <<>> THEN FirstMatch(body, PhoneGrouped)
  ELSE FirstMatch(body, <<Rep({"+"}, 0, 1), Rep(Digits, 10, 15)>>)

\* the text/plain parts that msg.walk() yields
PlainParts(msg) ==
  {i \in 1..Len(msg.parts) : msg.parts[i].content_type = "text/plain"}

extract_phone(msg) ==
  IF msg.multipart
  THEN LET hits == {i \in PlainParts(msg) : PhoneIn(msg.parts[i].body) # <<>>}
       IN IF hits = {} THEN <<>>
          ELSE PhoneIn(msg.parts[CHOOSE i \in hits : \A j \in hits : i <= j].body)
  ELSE <<>>

(***************************************************************************)
(* Position applied for, from the subject line                             *)
(***************************************************************************)
\* the dashes U+2013 and U+2014, one character each
EnDash == "en-dash"
Dashes == {"-", EnDash, "em-dash"}

\* str.upper() of one character
UpperChar(c) ==
  IF c \in LowerLetters THEN CHOOSE u \in UpperLetters : LowerChar(u) = c ELSE c

\* str.split()
RECURSIVE Split(_)
Split(t) ==
  LET inked == {i \in 1..Len(t) : t[i] \notin Whitespace}
  IN IF inked = {} THEN <<>>
     ELSE LET a == CHOOSE i \in inked : \A j \in inked : i <= j
              gaps == {i \in a..Len(t) : t[i] \in Whitespace}
              b == IF gaps = {} THEN Len(t)
                   ELSE (CHOOSE i \in gaps : \A j \in gaps : i <= j) - 1
          IN <<SubSeq(t, a, b)>> \o Split(SubSeq(t, b + 1, Len(t)))

\* ' '.join(words)
RECURSIVE JoinWords(_)
JoinWords(words) ==
  IF words = <<>> THEN <<>>
  ELSE IF Len(words) = 1 THEN words[1]
  ELSE words[1] \o <<" ">> \o JoinWords(Tail(words))

\* str.capitalize()
Capitalize(word) == <<UpperChar(word[1])>> \o Lower(Tail(word))

\* ' '.join(word.capitalize() for word in position.split())
TitleCase(position) ==
  LET words == Split(position)
  IN JoinWords([i \in 1..Len(words) |-> Capitalize(words[i])])

\* \s+, \s* and (?:the\s+)?
Spaces == Rep(RegexSpace, 1, Unbounded)
AnySpaces == Rep(RegexSpace, 0, Unbounded)
OptThe == Alt(<<Word(<<"t", "h", "e">>) \o <<Spaces>>, <<>> >>)

\* what stands before the group (.+?) in each pattern
GroupPrefix ==
  <<Word(<<"a", "p", "p", "l", "y", "i", "n", "g">>) \o <<Spaces>> \o Word(<<"f", "o", "r">>) \o <<Spaces, OptThe>>,
    <<>>,
    Word(<<"f", "o", "r">>) \o <<Spaces, OptThe>>,
    Word(<<"p", "o", "s", "i", "t", "i", "o", "n", ":">>) \o <<AnySpaces>>,
    Word(<<"r", "o", "l", "e", ":">>) \o <<AnySpaces>>,
    Word(<<"a", "p", "p", "l", "i", "c", "a", "t", "i", "o", "n">>) \o <<Spaces, Alt(<<Word(<<"f", "o", "r">>), Word(<<"t", "o">>)>>), Spaces, OptThe>>,
    <<Rep({"@", "-"}, 1, 1), AnySpaces>> >>

\* the places where the group of pattern k can start when the match starts
\* at position s of the lowercase subject; pattern 2 is anchored by ^
GroupStarts(k, t, s) ==
  IF k = 2 /\ s # 1 THEN <<>> ELSE Run(t, GroupPrefix[k], <<s>>)

\* \s+(?:w1|w2|...) at position e
SpaceThen(t, e, words) ==
  /\ e <= Len(t) /\ t[e] \in RegexSpace
  /\ \E w \in words : At(t, w, RunEnd(t, e, RegexSpace) + 1)

\* $ at position e
AtEnd(t, e) == e = Len(t) + 1 \/ (e = Len(t) /\ t[e] = "\n")

\* :\s*$ at position e
ColonEnd(t, e) ==
  /\ e <= Len(t) /\ t[e] = ":"
  /\ \A j \in (e + 1)..Len(t) : t[j] \in RegexSpace

\* what stands after the group in pattern k, read from position e
GroupStop(k, t, e) ==
  CASE k = 1 -> SpaceThen(t, e, {<<"p", "o", "s", "i", "t", "i", "o", "n">>, <<"r", "o", "l", "e">>, <<"a", "t">>, <<"@">>}) \/ AtEnd(t, e)
    [] k = 2 -> SpaceThen(t, e, {<<"a", "p", "p", "l", "i", "c", "a", "t", "i", "o", "n">>, <<"a", "p", "p", "l", "y">>, <<"j", "o", "b">>, <<"p", "o", "s", "i", "t", "i", "o", "n">>})
    [] k = 3 -> \/ SpaceThen(t, e, {<<"p", "o", "s", "i", "t", "i", "o", "n">>})
                \/ ColonEnd(t, e)
                \/ (e <= Len(t) /\ t[e] \in Dashes)
                \/ AtEnd(t, e)
    [] k = 4 -> SpaceThen(t, e, {<<d>> : d \in Dashes}) \/ AtEnd(t, e)
    [] k = 5 -> SpaceThen(t, e, {<<d>> : d \in Dashes}) \/ AtEnd(t, e)
    [] k = 6 -> \/ SpaceThen(t, e, {<<d>> : d \in Dashes})
                \/ At(t, <<"a", "t">>, e) \/ At(t, <<"@">>, e) \/ At(t, <<"j", "o", "b">>, e)
    [] k = 7 -> \/ SpaceThen(t, e, {<<"j", "o", "b">>})
                \/ ColonEnd(t, e)
                \/ (e <= Len(t) /\ t[e] \in Dashes)

NumPatterns == 7

\* the ways pattern k matches the lowercase subject t: start s of the match,
\* rank i of the group start among the ways to read what stands before the
\* group, and end e of the group, which holds no line break
GroupHits(k, t) ==
  UNION {UNION {{<<s, i, e>> :
                   e \in {e \in (gs[i] + 1)..(Len(t) + 1) :
                            /\ GroupStop(k, t, e)
                            /\ \A j \in gs[i]..(e - 1) : t[j] # "\n"}} :
                i \in DOMAIN gs} :
         <<s, gs>> \in {<<s, GroupStarts(k, t, s)>> : s \in 1..(Len(t) + 1)}}

\* re.search(patterns[k], clean_subject, re.IGNORECASE).group(1), empty when
\* the pattern does not match: the leftmost start, the first way to read
\* what stands before the group, and the fewest characters in the group
GroupOf(k, subject) ==
  LET hits == GroupHits(k, Lower(subject))
  IN IF hits = {} THEN <<>>
     ELSE LET h == CHOOSE h \in hits : \A o \in hits :
                     \/ h[1] < o[1]
                     \/ h[1] = o[1] /\ h[2] < o[2]
                     \/ h[1] = o[1] /\ h[2] = o[2] /\ h[3] <= o[3]
          IN SubSeq(subject, GroupStarts(k, Lower(subject), h[1])[h[2]], h[3] - 1)

\* re.sub of hyphen, U+2013 and underscore by a space
DashesToSpaces(position) ==
  [i \in 1..Len(position) |->
     IF position[i] \in {"-", EnDash, "_"} THEN " " ELSE position[i]] \o <<>>

\* re.sub(r'\s+(w1|w2|...).*', '', text, flags=re.IGNORECASE) on a text
\* without line breaks: the text is cut at the first space run that one of
\* the words follows
CutAtWord(text, words) ==
  LET hits == {i \in 1..Len(text) : SpaceThen(Lower(text), i, words)}
  IN IF hits = {} THEN text
     ELSE SubSeq(text, 1, (CHOOSE i \in hits : \A j \in hits : i <= j) - 1)

TitleSuffixes == {<<"p", "o", "s", "i", "t", "i", "o", "n">>, <<"r", "o", "l", "e">>, <<"j", "o", "b">>, <<"a", "p", "p", "l", "i", "c", "a", "t", "i", "o", "n">>, <<"a", "t">>, <<"@">>, <<"i", "n">>}
FirstWordsSuffixes == {<<"a", "p", "p", "l", "i", "c", "a", "t", "i", "o", "n">>, <<"a", "p", "p", "l", "y">>, <<"f", "o", "r">>, <<"j", "o", "b">>, <<"p", "o", "s", "i", "t", "i", "o", "n">>, <<"r", "o", "l", "e">>, <<"a", "t">>, <<"@">>}

\* the cleaned title of pattern k, empty when the pattern does not match
PatternTitle(k, clean_subject) ==
  LET group == GroupOf(k, clean_subject)
  IN IF group = <<>> THEN <<>>
     ELSE TitleCase(Strip(CutAtWord(DashesToSpaces(Strip(group)), TitleSuffixes)))

common_titles ==
  <<<<"F", "r", "o", "n", "t", "e", "n", "d", " ", "D", "e", "v", "e", "l", "o", "p", "e", "r">>,
    <<"B", "a", "c", "k", "e", "n", "d", " ", "D", "e", "v", "e", "l", "o", "p", "e", "r">>,
    <<"F", "u", "l", "l", " ", "S", "t", "a", "c", "k", " ", "D", "e", "v", "e", "l", "o", "p", "e", "r">>,
    <<"S", "o", "f", "t", "w", "a", "r", "e", " ", "E", "n", "g", "i", "n", "e", "e", "r">>,
    <<"S", "e", "n", "i", "o", "r", " ", "S", "o", "f", "t", "w", "a", "r", "e", " ", "E", "n", "g", "i", "n", "e", "e", "r">>,
    <<"J", "u", "n", "i", "o", "r", " ", "S", "o", "f", "t", "w", "a", "r", "e", " ", "E", "n", "g", "i", "n", "e", "e", "r">>,
    <<"W", "e", "b", " ", "D", "e", "v", "e", "l", "o", "p", "e", "r">>,
    <<"M", "o", "b", "i", "l", "e", " ", "D", "e", "v", "e", "l", "o", "p", "e", "r">>,
    <<"D", "e", "v", "O", "p", "s", " ", "E", "n", "g", "i", "n", "e", "e", "r">>,
    <<"D", "a", "t", "a", " ", "S", "c", "i", "e", "n", "t", "i", "s", "t">>,
    <<"M", "a", "c", "h", "i", "n", "e", " ", "L", "e", "a", "r", "n", "i", "n", "g", " ", "E", "n", "g", "i", "n", "e", "e", "r">>,
    <<"A", "I", " ", "E", "n", "g", "i", "n", "e", "e", "r">>,
    <<"P", "r", "o", "d", "u", "c", "t", " ", "M", "a", "n", "a", "g", "e", "r">>,
    <<"P", "r", "o", "j", "e", "c", "t", " ", "M", "a", "n", "a", "g", "e", "r">>,
    <<"U", "I", "/", "U", "X", " ", "D", "e", "s", "i", "g", "n", "e", "r">>,
    <<"Q", "A", " ", "E", "n", "g", "i", "n", "e", "e", "r">>,
    <<"S", "o", "f", "t", "w", "a", "r", "e", " ", "T", "e", "s", "t", "e", "r">>,
    <<"B", "u", "s", "i", "n", "e", "s", "s", " ", "A", "n", "a", "l", "y", "s", "t">>,
    <<"R", "e", "a", "c", "t", " ", "D", "e", "v", "e", "l", "o", "p", "e", "r">>,
    <<"A", "n", "g", "u", "l", "a", "r", " ", "D", "e", "v", "e", "l", "o", "p", "e", "r">>,
    <<"V", "u", "e", " ", "D", "e", "v", "e", "l", "o", "p", "e", "r">>,
    <<"N", "o", "d", "e", ".", "j", "s", " ", "D", "e", "v", "e", "l", "o", "p", "e", "r">>,
    <<"P", "y", "t", "h", "o", "n", " ", "D", "e", "v", "e", "l", "o", "p", "e", "r">>,
    <<"J", "a", "v", "a", " ", "D", "e", "v", "e", "l", "o", "p", "e", "r">>>>

\* potential_position of the last resort
FirstWords(clean_subject) ==
  LET words == Split(clean_subject)
  IN TitleCase(Strip(CutAtWord(JoinWords(SubSeq(words, 1, Min(3, Len(words)))),
                               FirstWordsSuffixes)))

extract_position(subject, default_pos) ==
  LET clean_subject == Strip(subject)
      good == {k \in 1..NumPatterns : Len(PatternTitle(k, clean_subject)) > 2}
      listed == {i \in 1..Len(common_titles) :
                   Contains(Lower(common_titles[i]), Lower(clean_subject))}
  IN IF good # {}
     THEN PatternTitle(CHOOSE k \in good : \A j \in good : k <= j, clean_subject)
     ELSE IF listed # {}
     THEN common_titles[CHOOSE i \in listed : \A j \in listed : i <= j]
     ELSE IF Len(Split(clean_subject)) >= 2 /\ Len(FirstWords(clean_subject)) > 5
     THEN FirstWords(clean_subject)
     ELSE default_pos

(***************************************************************************)
(* CV extraction                                                           *)
(***************************************************************************)
\* os.path.splitext(filename)[1].lower()
FileExt(filename) ==
  LET seps == {i \in 1..Len(filename) : filename[i] = "/"}
      base == IF seps = {} THEN 1
              ELSE (CHOOSE i \in seps : \A j \in seps : j <= i) + 1
      dots == {i \in base..Len(filename) :
                 filename[i] = "." /\ \E j \in base..(i - 1) : filename[j] # "."}
  IN IF dots = {} THEN <<>>
     ELSE Lower(SubSeq(filename, CHOOSE i \in dots : \A j \in dots : j <= i, Len(filename)))

ParsedExts == {<<".", "p", "d", "f">>, <<".", "d", "o", "c", "x">>, <<".", "d", "o", "c">>, <<".", "t", "x", "t">>}

\* parts that extract_cv_from_email saves and parses
IsAttachment(part) == ~part.multipart /\ part.disp /\ part.filename # <<>>

\* open(f"cv_cache/{filename}", 'wb') fails when the name holds a directory
SaveRaises(part) == Contains(<<"/">>, part.filename)

\* text obtained from one saved attachment
PartText(part) == IF FileExt(part.filename) \in ParsedExts THEN part.text ELSE <<>>

\* index of the attachment at which the loop stops (0: it runs to the end)
CvStop(msg) ==
  LET hits == {i \in 1..Len(msg.parts) :
                 IsAttachment(msg.parts[i]) /\ PartText(msg.parts[i]) # <<>>}
  IN IF hits = {} THEN 0 ELSE CHOOSE i \in hits : \A j \in hits : i <= j

\* attachments the loop visits before it stops
CvVisited(msg) ==
  {i \in 1..Len(msg.parts) :
     IsAttachment(msg.parts[i]) /\ (CvStop(msg) = 0 \/ i <= CvStop(msg))}

\* "raise" when saving a visited attachment fails, else the CV text
extract_cv_from_email(msg) ==
  IF \E i \in CvVisited(msg) : SaveRaises(msg.parts[i]) THEN "raise"
  ELSE IF CvStop(msg) = 0 THEN <<>>
  ELSE PartText(msg.parts[CvStop(msg)])

(***************************************************************************)
(* Scoring rubric                                                          *)
(* requirements: [required_skills, preferred_skills, min_experience,       *)
(* education, keywords, typed]; typed = FALSE stands for a requirements    *)
(* file whose min_experience is not a number, on which the comparison      *)
(* min_experience > 0 raises.                                              *)
(***************************************************************************)
RECURSIVE ParseInt(_)
ParseInt(ds) ==
  IF ds = <<>> THEN 0
  ELSE 10 * ParseInt(SubSeq(ds, 1, Len(ds) - 1))
       + (CHOOSE n \in 0..9 : ToString(n) = ds[Len(ds)])

\* re.search(r'(\d+)\+?\s*years?', cv_text) matching with its digits from s
YearsMatchAt(t, s) ==
  /\ t[s] \in Digits
  /\ LET e == RunEnd(t, s, Digits)
         p == IF e + 1 <= Len(t) /\ t[e + 1] = "+" THEN e + 2 ELSE e + 1
         q == RunEnd(t, p, RegexSpace) + 1
     IN q + 3 <= Len(t) /\ SubSeq(t, q, q + 3) = <<"y", "e", "a", "r">>

\* -1 when the pattern is absent, else int(exp_match.group(1))
ExtractYears(t) ==
  LET starts == {s \in 1..Len(t) : YearsMatchAt(t, s)}
  IN IF starts = {} THEN -1
     ELSE LET s == CHOOSE x \in starts : \A y \in starts : x <= y
          IN ParseInt(SubSeq(t, s, RunEnd(t, s, Digits)))

\* number of terms of the list that occur in the text
Matched(terms, cv_text) ==
  Cardinality({i \in 1..Len(terms) : Contains(Lower(terms[i]), cv_text)})

\* variant: the fraction is rounded up
SetScoreRoundedUp(matched, total, w) ==
  Min(w, (matched * w + total - 1) \div total)

\* min(w, int((matched / len(terms)) * w))
SetScore(matched, total, w) ==
  Min(w, (matched * w) \div total)

\* variant: an empty list counts as fully matched
SkillPartFullWhenEmpty(terms, cv_text, w, label) ==
  LET matched == Matched(terms, cv_text)
  IN IF terms # <<>>
     THEN [pts |-> SetScore(matched, Len(terms), w),
           fb |-> << <<label, matched, Len(terms)>> >>]
     ELSE [pts |-> w, fb |-> <<>>]

SkillPart(terms, cv_text, w, label) ==
  LET matched == Matched(terms, cv_text)
  IN IF terms # <<>>
     THEN [pts |-> SetScore(matched, Len(terms), w),
           fb |-> << <<label, matched, Len(terms)>> >>]
     ELSE [pts |-> 0, fb |-> <<>>]

\* variant: enough years earn the points of both branches
ExperiencePartBothBranches(min_experience, cv_text) ==
  IF min_experience > 0
  THEN LET years == ExtractYears(cv_text)
       IN IF years >= 0
          THEN IF years >= min_experience
               THEN [pts |-> 3, fb |-> << <<"Experience", years, "meets requirement">> >>]
               ELSE IF years >= min_experience - 1
               THEN [pts |-> 1, fb |-> << <<"Experience", years, "close">> >>]
               ELSE [pts |-> 0, fb |-> << <<"Experience", years, "below requirement">> >>]
          ELSE [pts |-> 0, fb |-> << <<"Experience", "Could not determine">> >>]
  ELSE [pts |-> 2, fb |-> <<>>]

\* variant: one year short of the minimum earns nothing
ExperiencePartWithoutClose(min_experience, cv_text) ==
  IF min_experience > 0
  THEN LET years == ExtractYears(cv_text)
       IN IF years >= 0
          THEN IF years >= min_experience
               THEN [pts |-> 2, fb |-> << <<"Experience", years, "meets requirement">> >>]
               ELSE [pts |-> 0, fb |-> << <<"Experience", years, "below requirement">> >>]
          ELSE [pts |-> 0, fb |-> << <<"Experience", "Could not determine">> >>]
  ELSE [pts |-> 2, fb |-> <<>>]

ExperiencePart(min_experience, cv_text) ==
  IF min_experience > 0
  THEN LET years == ExtractYears(cv_text)
       IN IF years >= 0
          THEN IF years >= min_experience
               THEN [pts |-> 2, fb |-> << <<"Experience", years, "meets requirement">> >>]
               ELSE IF years >= min_experience - 1
               THEN [pts |-> 1, fb |-> << <<"Experience", years, "close">> >>]
               ELSE [pts |-> 0, fb |-> << <<"Experience", years, "below requirement">> >>]
          ELSE [pts |-> 0, fb |-> << <<"Experience", "Could not determine">> >>]
  ELSE [pts |-> 2, fb |-> <<>>]

\* variant: without education terms the dimension is skipped
EducationPartSkippedWhenEmpty(education, cv_text) ==
  IF education # <<>>
  THEN IF \E i \in 1..Len(education) : Contains(Lower(education[i]), cv_text)
       THEN [pts |-> 1, fb |-> << <<"Education", "Match found">> >>]
       ELSE [pts |-> 0, fb |-> << <<"Education", "No clear match">> >>]
  ELSE [pts |-> 0, fb |-> <<>>]

\* variant: the terms are compared as they are written
EducationPartCaseSensitive(education, cv_text) ==
  IF education # <<>>
  THEN IF \E i \in 1..Len(education) : Contains(education[i], cv_text)
       THEN [pts |-> 1, fb |-> << <<"Education", "Match found">> >>]
       ELSE [pts |-> 0, fb |-> << <<"Education", "No clear match">> >>]
  ELSE [pts |-> 1, fb |-> <<>>]

EducationPart(education, cv_text) ==
  IF education # <<>>
  THEN IF \E i \in 1..Len(education) : Contains(Lower(education[i]), cv_text)
       THEN [pts |-> 1, fb |-> << <<"Education", "Match found">> >>]
       ELSE [pts |-> 0, fb |-> << <<"Education", "No clear match">> >>]
  ELSE [pts |-> 1, fb |-> <<>>]

\* the five dimensions of the rubric: the points and the feedback line of each
Dimensions(cv_text, req) ==
  [required |-> SkillPart(req.required_skills, cv_text, 3, "Required Skills"),
   preferred |-> SkillPart(req.preferred_skills, cv_text, 2, "Preferred Skills"),
   experience |-> ExperiencePart(req.min_experience, cv_text),
   education |-> EducationPart(req.education, cv_text),
   keywords |-> SkillPart(req.keywords, cv_text, 2, "Keywords")]

\* variant: the keyword points are left out of the total
TotalWithoutKeywords(dim) ==
  dim.required.pts + dim.preferred.pts + dim.experience.pts + dim.education.pts

Total(dim) ==
  dim.required.pts + dim.preferred.pts + dim.experience.pts
  + dim.education.pts + dim.keywords.pts

\* the rubric total before the cap
RawScore(cv_text, req) == Total(Dimensions(cv_text, req))

\* what each dimension added to the total (skill_score, pref_score, the
\* experience and education increments, keyword_score)
SubScores(dim) ==
  [required |-> dim.required.pts, preferred |-> dim.preferred.pts,
   experience |-> dim.experience.pts, education |-> dim.education.pts,
   keywords |-> dim.keywords.pts]

\* '; '.join(feedback)
Feedback(dim) ==
  dim.required.fb \o dim.preferred.fb \o dim.experience.fb
  \o dim.education.fb \o dim.keywords.fb

StatusOf(score, passing_score) == IF score >= passing_score THEN "Passed" ELSE "Review"

\* variant: the total is not capped at max_score
score_candidate_uncapped(cv_content, req, cfg) ==
  LET dim == Dimensions(Lower(cv_content), req)
      score == Total(dim)
  IN [score |-> score,
      feedback |-> Feedback(dim),
      status |-> StatusOf(score, cfg.passing_score),
      parts |-> SubScores(dim)]

score_candidate(cv_content, req, cfg) ==
  LET dim == Dimensions(Lower(cv_content), req)
      score == Min(Total(dim), cfg.max_score)
  IN [score |-> score,
      feedback |-> Feedback(dim),
      status |-> StatusOf(score, cfg.passing_score),
      parts |-> SubScores(dim)]

(***************************************************************************)
(* Mailbox contents, configurations and requirement profiles explored      *)
(***************************************************************************)
\* a part with a file: Content-Disposition, file name, text its parser gives
Part(disp, filename, text) ==
  [multipart |-> FALSE, disp |-> disp, filename |-> filename, text |-> text,
   content_type |-> "application/octet-stream", body |-> <<>>]

\* a text/plain part without Content-Disposition
TextPart(body) ==
  [multipart |-> FALSE, disp |-> FALSE, filename |-> <<>>, text |-> <<>>,
   content_type |-> "text/plain", body |-> body]

\* a message of the given structure: multipart, or one part alone
Mail(multipart, from, subject, parts) ==
  [raw_ok |-> TRUE, from |-> from, subject |-> subject, parts |-> parts,
   multipart |-> multipart]

\* a message with its attachments
Msg(raw_ok, from, subject, parts) ==
  [raw_ok |-> raw_ok, from |-> from, subject |-> subject, parts |-> parts,
   multipart |-> parts # <<>>]

HdrAlice == <<"A", "l", " ", "<", "a", "@", "b", ".", "i", "o", ">">>
HdrCarol == <<"c", "@", "b", ".", "i", "o">>
HdrPortal == <<"N", "o", " ", "R", "e", "p", "l", "y", " ", "<", "n", "o", "r", "e", "p", "l", "y", "@", "l", "i", "n", "k", "e", "d", "i", "n", ".", "c", "o", "m", ">">>
SubjJob == <<"J", "o", "b">>
SubjHi == <<"h", "i">>
TxtStrong == <<"G", "o", " ", "5", " ", "y", "e", "a", "r", "s">>
TxtWeak == <<"g", "o">>

\* keyword subject, human sender, CV that passes
MsgApply == Msg(TRUE, HdrAlice, SubjJob, << Part(TRUE, <<"C", "V", ".", "p", "d", "f">>, TxtStrong) >>)
\* same sender, accepted through the attachment name, CV that does not pass
MsgAgain == Msg(TRUE, HdrAlice, SubjHi, << Part(TRUE, <<"m", "y", "_", "r", "e", "s", "u", "m", "e", ".", "d", "o", "c">>, TxtWeak) >>)
\* portal relay: accepted through the sender domain, automated address
MsgPortal == Msg(TRUE, HdrPortal, SubjHi, << Part(TRUE, <<"r", ".", "d", "o", "c", "x">>, TxtStrong) >>)
\* not an application
MsgChat == Msg(TRUE, HdrCarol, SubjHi, <<>>)
\* accepted, but no valid address in the header
MsgBad == Msg(TRUE, <<"A", "l", " ", "<", "a", "@", "b", ">">>, SubjJob, <<>>)
\* fetch data without a message tuple: message_from_bytes(msg_data[1]) raises
MsgBroken == Msg(FALSE, HdrAlice, SubjJob, <<>>)
\* attachment name with a directory: saving it raises
MsgSlash == Msg(TRUE, HdrAlice, SubjJob, << Part(TRUE, <<"x", "/", "c", "v", ".", "p", "d", "f">>, TxtStrong) >>)

MsgKinds == {MsgApply, MsgAgain, MsgPortal, MsgChat, MsgBad, MsgBroken, MsgSlash}

Cfg(passing_score, max_score, auto_reply, storage, whatsapp) ==
  [passing_score |-> passing_score, max_score |-> max_score,
   auto_reply |-> auto_reply, storage |-> storage, whatsapp |-> whatsapp]

DefaultPassing == 8
DefaultMax == 10

\* "position" of the requirements
PositionGeneral == <<"G", "e", "n", "e", "r", "a", "l">>

Req(required_skills, preferred_skills, min_experience, education, keywords, typed) ==
  [required_skills |-> required_skills, preferred_skills |-> preferred_skills,
   min_experience |-> min_experience, education |-> education,
   keywords |-> keywords, typed |-> typed, position |-> PositionGeneral]

TermGo == <<"G", "o">>

ProfileGo == Req(<<TermGo>>, <<>>, 3, <<>>, <<TermGo>>, TRUE)
\* the same profile in a file whose min_experience is not a number
ProfileUntyped == Req(<<TermGo>>, <<>>, 3, <<>>, <<TermGo>>, FALSE)
\* the same profile in a file with "position": ""
ProfileUnnamed == [ProfileGo EXCEPT !.position = <<>>]

\* the installations explored: configuration and requirements file
Setups ==
  ({Cfg(DefaultPassing, DefaultMax, TRUE, "csv", TRUE),
    Cfg(DefaultPassing, DefaultMax, TRUE, "sheets", FALSE),
    Cfg(DefaultPassing, DefaultMax, FALSE, "none", TRUE)} \X {ProfileGo})
  \cup {<<Cfg(DefaultPassing, DefaultMax, TRUE, "csv", TRUE), ProfileUntyped>>}

(***************************************************************************)
(* State                                                                   *)
(***************************************************************************)
VARIABLES
  mailbox,            \* message number -> message held by the mail server
  arrived,            \* messages 1..arrived are in the search window
  config,             \* config.json as loaded
  requirements,       \* requirements.json as loaded
  today,              \* calendar date seen by datetime.now()
  file_processed,     \* lines of processed_emails.txt
  file_replies,       \* lines of sent_replies.txt
  processed_emails,   \* self.processed_emails
  sent_reply_emails,  \* self.sent_reply_emails
  pc,                 \* position of the running process ("down": none)
  email_ids,          \* the batch of the current run
  idx,                \* position of the loop in email_ids
  cand,               \* sender_email and candidate_data of the current message
  log,                \* stages performed in the current attempt, in order
  hist,               \* per message: how often each stage was performed,
                      \* and the scoring results it got
  replies,            \* successful reply sends: [key, id, run]
  run,                \* bookkeeping of the current run
  prev,               \* bookkeeping of the run before it (at: where it ended,
                      \* kept until the next process starts)
  runs,               \* processes started so far
  faults              \* failures injected so far (sinks, transport, kills)

vars == <<mailbox, arrived, config, requirements, today, file_processed,
          file_replies, processed_emails, sent_reply_emails, pc, email_ids,
          idx, cand, log, hist, replies, run, prev, runs, faults>>

MsgIds == 1..NumMsgs

\* email_id.decode()
IdStr(i) == <<ToString(i)>>

\* datetime.now().strftime('%Y-%m-%d')
DateStr(d) == <<"2", "0", "2", "4", "-", "0", "1", "-", "0">> \o <<ToString(d)>>

\* f"{sender_email}_{date}"
ReplyKey(sender_email, d) == sender_email \o <<"_">> \o DateStr(d)

\* set(line.strip() for line in f if line.strip())
LoadLines(lines) == {Strip(l) : l \in lines} \ {<<>>}

NoCand == [email |-> <<>>, key |-> <<>>, position |-> <<>>, phone |-> <<>>,
           cv_content |-> <<>>, scored |-> FALSE,
           score |-> 0, status |-> "", feedback |-> <<>>, failed |-> {},
           parts |-> [required |-> 0, preferred |-> 0, experience |-> 0,
                      education |-> 0, keywords |-> 0]]

NoHist == [fetch |-> 0, score |-> 0, store |-> 0, sheet |-> 0, csv |-> 0,
           notify |-> 0, reply |-> 0, results |-> {}]

NoRun == [window |-> <<>>, clean |-> TRUE, effects |-> 0,
          processed0 |-> {}, replies0 |-> {}]

\* outcomes an external call may have while failures may still be injected
MayFail == IF faults < MaxFaults THEN {TRUE, FALSE} ELSE {TRUE}
Outcomes == IF faults < MaxFaults THEN {"OK", "NO", "raise"} ELSE {"OK"}
Cost(ok) == IF ok THEN 0 ELSE 1

\* the message the loop is at
CurId == email_ids[idx]
CurMsg == mailbox[CurId]

Init ==
  /\ mailbox \in [MsgIds -> MsgKinds]
  /\ arrived \in 0..NumMsgs
  /\ \E s \in Setups : config = s[1] /\ requirements = s[2]
  /\ today = 1
  /\ file_processed = {}
  /\ file_replies = {}
  /\ processed_emails = {}
  /\ sent_reply_emails = {}
  /\ pc = "down"
  /\ email_ids = <<>>
  /\ idx = 0
  /\ cand = NoCand
  /\ log = <<>>
  /\ hist = [i \in MsgIds |-> NoHist]
  /\ replies = {}
  /\ run = NoRun
  /\ prev = [window |-> <<>>, clean |-> FALSE, killed |-> FALSE, at |-> "none"]
  /\ runs = 0
  /\ faults = 0

(***************************************************************************)
(* Environment                                                             *)
(***************************************************************************)
\* a new message enters the search window; only mail.search reads the window,
\* so arrivals are taken between runs
Arrive ==
  /\ pc = "down"
  /\ arrived < NumMsgs
  /\ arrived' = arrived + 1
  /\ UNCHANGED <<mailbox, config, requirements, today, file_processed,
                 file_replies, processed_emails, sent_reply_emails, pc,
                 email_ids, idx, cand, log, hist, replies, run, prev, runs, faults>>

\* midnight passes; the date is read when the reply key is built, so the
\* change of day is taken between runs or right before that read
Tick ==
  /\ pc \in {"down", "reply"}
  /\ today < MaxDay
  /\ today' = today + 1
  /\ UNCHANGED <<mailbox, arrived, config, requirements, file_processed,
                 file_replies, processed_emails, sent_reply_emails, pc,
                 email_ids, idx, cand, log, hist, replies, run, prev, runs, faults>>

\* the process is killed from outside: its memory is lost, the files stay
Kill ==
  /\ pc # "down"
  /\ faults < MaxFaults
  /\ faults' = faults + 1
  /\ pc' = "down"
  /\ processed_emails' = {}
  /\ sent_reply_emails' = {}
  /\ email_ids' = <<>>
  /\ idx' = 0
  /\ cand' = NoCand
  /\ log' = <<>>
  /\ prev' = [window |-> run.window, clean |-> FALSE, killed |-> TRUE, at |-> "killed"]
  /\ run' = NoRun
  /\ UNCHANGED <<mailbox, arrived, config, requirements, today, file_processed,
                 file_replies, hist, replies, runs>>

(***************************************************************************)
(* One run of main(): __init__, start, process_new_emails                  *)
(***************************************************************************)
\* the process ends: start() returns
Exit(clean) ==
  /\ pc' = "down"
  /\ processed_emails' = {}
  /\ sent_reply_emails' = {}
  /\ email_ids' = <<>>
  /\ idx' = 0
  /\ cand' = NoCand
  /\ log' = <<>>
  /\ prev' = [window |-> run.window, clean |-> run.clean /\ clean, killed |-> FALSE,
              at |-> pc]
  /\ run' = NoRun

\* variant: process_new_emails is called whatever connect_email returned
StartWithoutConnectionCheck ==
  /\ pc = "down"
  /\ runs < MaxRuns
  /\ runs' = runs + 1
  /\ \E connected \in MayFail :
       /\ faults' = faults + Cost(connected)
       /\ pc' = "search"
       /\ processed_emails' = LoadLines(file_processed)
       /\ sent_reply_emails' = LoadLines(file_replies)
       /\ run' = [NoRun EXCEPT !.processed0 = LoadLines(file_processed),
                               !.replies0 = LoadLines(file_replies)]
       /\ prev' = [prev EXCEPT !.at = "none"]
       /\ UNCHANGED <<email_ids, idx, cand, log>>
  /\ UNCHANGED <<mailbox, arrived, config, requirements, today, file_processed,
                 file_replies, hist, replies>>

\* JobApplicationMonitor(): both ledger files are loaded; connect_email
Start ==
  /\ pc = "down"
  /\ runs < MaxRuns
  /\ runs' = runs + 1
  /\ \E connected \in MayFail :
       /\ faults' = faults + Cost(connected)
       /\ IF connected
          THEN /\ pc' = "search"
               /\ processed_emails' = LoadLines(file_processed)
               /\ sent_reply_emails' = LoadLines(file_replies)
               /\ run' = [NoRun EXCEPT !.processed0 = LoadLines(file_processed),
                                       !.replies0 = LoadLines(file_replies)]
               /\ prev' = [prev EXCEPT !.at = "none"]
               /\ UNCHANGED <<email_ids, idx, cand, log>>
          ELSE /\ run' = NoRun
               /\ prev' = [window |-> <<>>, clean |-> FALSE, killed |-> FALSE,
                           at |-> "connect"]
               /\ UNCHANGED <<pc, processed_emails, sent_reply_emails, email_ids,
                              idx, cand, log>>
  /\ UNCHANGED <<mailbox, arrived, config, requirements, today, file_processed,
                 file_replies, hist, replies>>

BatchCap == 100

\* variant: the oldest ids of the search result are kept
FirstN(ids, n) == IF Len(ids) > n THEN SubSeq(ids, 1, n) ELSE ids

\* email_ids[-100:] if len(email_ids) > 100 else email_ids
LastN(ids, n) == IF Len(ids) > n THEN SubSeq(ids, Len(ids) - n + 1, Len(ids)) ELSE ids

\* mail.search: the ids of the window (the run ends when there are none),
\* a status other than OK, or an exception
Search ==
  /\ pc = "search"
  /\ \E outcome \in Outcomes :
       /\ faults' = faults + Cost(outcome = "OK")
       /\ IF outcome = "OK" /\ arrived > 0
          THEN /\ email_ids' = LastN([i \in 1..arrived |-> i], BatchCap)
               /\ idx' = 1
               /\ pc' = "loop"
               /\ run' = [run EXCEPT !.window = LastN([i \in 1..arrived |-> i], BatchCap)]
               /\ UNCHANGED <<processed_emails, sent_reply_emails, cand, log, prev>>
          ELSE Exit(outcome = "OK")
  /\ UNCHANGED <<mailbox, arrived, config, requirements, today, file_processed,
                 file_replies, hist, replies, runs>>

\* variant: the loop without the membership test on processed_emails
LoopWithoutSkip ==
  /\ pc = "loop"
  /\ IF idx > Len(email_ids)
     THEN Exit(TRUE)
     ELSE /\ idx' = idx
          /\ pc' = "fetch"
          /\ UNCHANGED <<processed_emails, sent_reply_emails, email_ids, cand,
                         log, run, prev>>
  /\ UNCHANGED <<mailbox, arrived, config, requirements, today, file_processed,
                 file_replies, hist, replies, runs, faults>>

\* head of the for loop: skip processed ids, leave after the last id
Loop ==
  /\ pc = "loop"
  /\ IF idx > Len(email_ids)
     THEN Exit(TRUE)
     ELSE /\ IF IdStr(CurId) \in processed_emails
             THEN idx' = idx + 1 /\ pc' = "loop"
             ELSE idx' = idx /\ pc' = "fetch"
          /\ UNCHANGED <<processed_emails, sent_reply_emails, email_ids, cand,
                         log, run, prev>>
  /\ UNCHANGED <<mailbox, arrived, config, requirements, today, file_processed,
                 file_replies, hist, replies, runs, faults>>

\* variant: an id whose fetch returned another status is recorded as well
FetchRecordsNotOK ==
  /\ pc = "fetch"
  /\ hist' = [hist EXCEPT ![CurId].fetch = @ + 1]
  /\ \E outcome \in Outcomes :
       /\ faults' = faults + Cost(outcome = "OK")
       /\ CASE outcome = "OK" ->
                 /\ pc' = "parse"
                 /\ log' = <<"fetch">>
                 /\ cand' = NoCand
                 /\ UNCHANGED <<processed_emails, file_processed, sent_reply_emails,
                                email_ids, idx, run, prev>>
            [] outcome = "NO" ->
                 /\ pc' = "loop"
                 /\ idx' = idx + 1
                 /\ run' = [run EXCEPT !.clean = FALSE]
                 /\ processed_emails' = processed_emails \cup {IdStr(CurId)}
                 /\ file_processed' = file_processed \cup {IdStr(CurId)}
                 /\ UNCHANGED <<sent_reply_emails, email_ids, cand, log, prev>>
            [] outcome = "raise" -> Exit(FALSE) /\ UNCHANGED file_processed
  /\ UNCHANGED <<mailbox, arrived, config, requirements, today,
                 file_replies, replies, runs>>

\* mail.fetch: OK, another status (the id is passed over), or an exception
Fetch ==
  /\ pc = "fetch"
  /\ hist' = [hist EXCEPT ![CurId].fetch = @ + 1]
  /\ \E outcome \in Outcomes :
       /\ faults' = faults + Cost(outcome = "OK")
       /\ CASE outcome = "OK" ->
                 /\ pc' = "parse"
                 /\ log' = <<"fetch">>
                 /\ cand' = NoCand
                 /\ UNCHANGED <<processed_emails, sent_reply_emails, email_ids,
                                idx, run, prev>>
            [] outcome = "NO" ->
                 /\ pc' = "loop"
                 /\ idx' = idx + 1
                 /\ run' = [run EXCEPT !.clean = FALSE]
                 /\ UNCHANGED <<processed_emails, sent_reply_emails, email_ids,
                                cand, log, prev>>
            [] outcome = "raise" -> Exit(FALSE)
  /\ UNCHANGED <<mailbox, arrived, config, requirements, today, file_processed,
                 file_replies, replies, runs>>

(***************************************************************************)
(* process_application, one stage per step.  An exception raised in a      *)
(* stage is caught by the handler's except clause: the attempt ends and    *)
(* control returns to process_new_emails, which marks the id.              *)
(***************************************************************************)
Stage(name) == log' = Append(log, name)

\* the sinks that failed while the current message was dispatched
Failed(sink, ok) == [cand EXCEPT !.failed = IF ok THEN @ ELSE @ \cup {sink}]

\* variant: the automated-sender check is left out
GateEmailValidOnly(sender_email) ==
  IF sender_email = <<>> \/ ~_is_valid_email(sender_email) THEN <<>> ELSE sender_email

\* the sender address after the two checks at the top of process_application
GateEmail(sender_email) ==
  CHOOSE r \in {IF e1 # <<>> /\ _is_automated_email(e1) THEN <<>> ELSE e1 :
                e1 \in {IF e = <<>> \/ ~_is_valid_email(e) THEN <<>> ELSE e :
                         e \in {sender_email}}} : TRUE

\* variant: a message without a usable sender address is dropped
ParseDropsGated ==
  /\ pc = "parse"
  /\ IF ~CurMsg.raw_ok \/ GateEmail(extract_email(CurMsg.from)) = <<>>
     THEN /\ pc' = "mark"
          /\ Stage("raise")
          /\ cand' = cand
     ELSE /\ pc' = "classify"
          /\ Stage("parse")
          /\ cand' = [NoCand EXCEPT !.email = GateEmail(extract_email(CurMsg.from))]
  /\ UNCHANGED <<mailbox, arrived, config, requirements, today, file_processed,
                 file_replies, processed_emails, sent_reply_emails, email_ids,
                 idx, hist, replies, run, prev, runs, faults>>

\* message_from_bytes, extract_email, extract_name, contact gate
Parse ==
  /\ pc = "parse"
  /\ IF ~CurMsg.raw_ok
     THEN /\ pc' = "mark"
          /\ Stage("raise")
          /\ cand' = cand
     ELSE /\ pc' = "classify"
          /\ Stage("parse")
          /\ cand' = [NoCand EXCEPT !.email = GateEmail(extract_email(CurMsg.from))]
  /\ UNCHANGED <<mailbox, arrived, config, requirements, today, file_processed,
                 file_replies, processed_emails, sent_reply_emails, email_ids,
                 idx, hist, replies, run, prev, runs, faults>>

\* variant: the early return for a rejected message is missing
ClassifyWithoutReturn ==
  /\ pc = "classify"
  /\ pc' = "extract"
  /\ Stage("classify")
  /\ UNCHANGED <<mailbox, arrived, config, requirements, today, file_processed,
                 file_replies, processed_emails, sent_reply_emails, email_ids,
                 idx, cand, hist, replies, run, prev, runs, faults>>

\* variant: a rejected message is recorded by the classification itself
ClassifyRecordsRejected ==
  /\ pc = "classify"
  /\ IF is_job_application(CurMsg.subject, CurMsg)
     THEN /\ pc' = "extract" /\ Stage("classify")
          /\ UNCHANGED <<file_processed, processed_emails>>
     ELSE /\ pc' = "mark" /\ Stage("reject")
          /\ processed_emails' = processed_emails \cup {IdStr(CurId)}
          /\ file_processed' = file_processed \cup {IdStr(CurId)}
  /\ UNCHANGED <<mailbox, arrived, config, requirements, today,
                 file_replies, sent_reply_emails, email_ids,
                 idx, cand, hist, replies, run, prev, runs, faults>>

Classify ==
  /\ pc = "classify"
  /\ IF is_job_application(CurMsg.subject, CurMsg)
     THEN pc' = "extract" /\ Stage("classify")
     ELSE pc' = "mark" /\ Stage("reject")
  /\ UNCHANGED <<mailbox, arrived, config, requirements, today, file_processed,
                 file_replies, processed_emails, sent_reply_emails, email_ids,
                 idx, cand, hist, replies, run, prev, runs, faults>>

\* variant: an exception of the extraction escapes process_application and
\* reaches the handler of process_new_emails, which ends the run
ExtractEscapes ==
  /\ pc = "extract"
  /\ IF extract_cv_from_email(CurMsg) = "raise"
     THEN Exit(FALSE)
     ELSE /\ pc' = "score"
          /\ Stage("extract")
          /\ cand' = [cand EXCEPT
                        !.position = extract_position(CurMsg.subject, requirements.position),
                        !.phone = extract_phone(CurMsg),
                        !.cv_content = extract_cv_from_email(CurMsg)]
          /\ UNCHANGED <<processed_emails, sent_reply_emails, email_ids, idx,
                         run, prev>>
  /\ UNCHANGED <<mailbox, arrived, config, requirements, today, file_processed,
                 file_replies, hist, replies, runs, faults>>

\* extract_position, extract_phone, extract_cv_from_email
\* candidate_data is filled from the headers and the body, then the CV is
\* taken from the attachments
Extract ==
  /\ pc = "extract"
  /\ IF extract_cv_from_email(CurMsg) = "raise"
     THEN /\ pc' = "mark"
          /\ Stage("raise")
          /\ cand' = [cand EXCEPT
                        !.position = extract_position(CurMsg.subject, requirements.position),
                        !.phone = extract_phone(CurMsg)]
     ELSE /\ pc' = "score"
          /\ Stage("extract")
          /\ cand' = [cand EXCEPT
                        !.position = extract_position(CurMsg.subject, requirements.position),
                        !.phone = extract_phone(CurMsg),
                        !.cv_content = extract_cv_from_email(CurMsg)]
  /\ UNCHANGED <<mailbox, arrived, config, requirements, today, file_processed,
                 file_replies, processed_emails, sent_reply_emails, email_ids,
                 idx, hist, replies, run, prev, runs, faults>>

\* what score_candidate was given and what it returned
Result(c) == [cv_content |-> c.cv_content, score |-> c.score,
              feedback |-> c.feedback, status |-> c.status]

\* variant: a candidate scored after another message was recorded gets 0
ScoreReadsLedger ==
  /\ pc = "score"
  /\ IF ~requirements.typed
     THEN /\ pc' = "mark"
          /\ Stage("raise")
          /\ UNCHANGED <<cand, hist>>
     ELSE /\ pc' = "store"
          /\ Stage("score")
          /\ LET score_data == score_candidate(cand.cv_content, requirements, config)
             IN cand' = [cand EXCEPT !.scored = TRUE,
                                     !.score = IF processed_emails = {}
                                               THEN score_data.score ELSE 0,
                                     !.status = score_data.status,
                                     !.feedback = score_data.feedback,
                                     !.parts = score_data.parts]
          /\ hist' = [hist EXCEPT ![CurId].score = @ + 1,
                                  ![CurId].results = @ \cup {Result(cand')}]
  /\ UNCHANGED <<mailbox, arrived, config, requirements, today, file_processed,
                 file_replies, processed_emails, sent_reply_emails, email_ids,
                 idx, replies, run, prev, runs, faults>>

Score ==
  /\ pc = "score"
  /\ IF ~requirements.typed
     THEN /\ pc' = "mark"
          /\ Stage("raise")
          /\ UNCHANGED <<cand, hist>>
     ELSE /\ pc' = "store"
          /\ Stage("score")
          /\ LET score_data == score_candidate(cand.cv_content, requirements, config)
             IN cand' = [cand EXCEPT !.scored = TRUE,
                                     !.score = score_data.score,
                                     !.status = score_data.status,
                                     !.feedback = score_data.feedback,
                                     !.parts = score_data.parts]
          /\ hist' = [hist EXCEPT ![CurId].score = @ + 1,
                                  ![CurId].results = @ \cup {Result(cand')}]
  /\ UNCHANGED <<mailbox, arrived, config, requirements, today, file_processed,
                 file_replies, processed_emails, sent_reply_emails, email_ids,
                 idx, replies, run, prev, runs, faults>>

\* failures injected by one storage dispatch: the sheet append, then the
\* backup write that only a failed append reaches
StoreCost(sink_ok, backup_ok) ==
  CASE config.storage = "sheets" ->
         IF sink_ok THEN 0 ELSE 1 + Cost(backup_ok)
    [] config.storage = "csv" -> Cost(sink_ok)
    [] OTHER -> 0

\* variant: a failed write ends the attempt
StoreAbortsOnFailure ==
  /\ pc = "store"
  /\ \E sink_ok \in BOOLEAN : \E backup_ok \in BOOLEAN :
       /\ faults' = faults + StoreCost(sink_ok, backup_ok)
       /\ faults' <= MaxFaults
       /\ pc' = IF sink_ok \/ config.storage = "none" THEN "notify" ELSE "mark"
       /\ CASE config.storage = "sheets" ->
                 /\ hist' = [hist EXCEPT ![CurId].store = @ + 1,
                                         ![CurId].sheet = @ + (IF sink_ok THEN 1 ELSE 0),
                                         ![CurId].csv = @ + (IF ~sink_ok /\ backup_ok THEN 1 ELSE 0)]
                 /\ run' = [run EXCEPT !.effects = @ + 1]
                 /\ Stage("store")
                 /\ cand' = Failed("store", sink_ok)
            [] config.storage = "csv" ->
                 /\ hist' = [hist EXCEPT ![CurId].store = @ + 1,
                                         ![CurId].csv = @ + (IF sink_ok THEN 1 ELSE 0)]
                 /\ run' = [run EXCEPT !.effects = @ + 1]
                 /\ Stage("store")
                 /\ cand' = Failed("store", sink_ok)
            [] OTHER ->
                 /\ UNCHANGED <<hist, run, log, cand>>
  /\ UNCHANGED <<mailbox, arrived, config, requirements, today, file_processed,
                 file_replies, processed_emails, sent_reply_emails, email_ids,
                 idx, replies, prev, runs>>

\* sheets_handler.add_candidate with its CSV fallback, csv_handler.add_candidate,
\* or no handler; each write may fail inside the handler, which logs it
Store ==
  /\ pc = "store"
  /\ pc' = "notify"
  /\ \E sink_ok \in BOOLEAN : \E backup_ok \in BOOLEAN :
       /\ faults' = faults + StoreCost(sink_ok, backup_ok)
       /\ faults' <= MaxFaults
       /\ CASE config.storage = "sheets" ->
                 /\ hist' = [hist EXCEPT ![CurId].store = @ + 1,
                                         ![CurId].sheet = @ + (IF sink_ok THEN 1 ELSE 0),
                                         ![CurId].csv = @ + (IF ~sink_ok /\ backup_ok THEN 1 ELSE 0)]
                 /\ run' = [run EXCEPT !.effects = @ + 1]
                 /\ Stage("store")
                 /\ cand' = Failed("store", sink_ok)
            [] config.storage = "csv" ->
                 /\ hist' = [hist EXCEPT ![CurId].store = @ + 1,
                                         ![CurId].csv = @ + (IF sink_ok THEN 1 ELSE 0)]
                 /\ run' = [run EXCEPT !.effects = @ + 1]
                 /\ Stage("store")
                 /\ cand' = Failed("store", sink_ok)
            [] OTHER ->
                 /\ UNCHANGED <<hist, run, log, cand>>
  /\ UNCHANGED <<mailbox, arrived, config, requirements, today, file_processed,
                 file_replies, processed_emails, sent_reply_emails, email_ids,
                 idx, replies, prev, runs>>

\* variant: the comparison with the passing score is strict
NotifyAbovePassing ==
  /\ pc = "notify"
  /\ pc' = "reply"
  /\ IF cand.score > config.passing_score
     THEN /\ hist' = [hist EXCEPT ![CurId].notify = @ + 1]
          /\ run' = [run EXCEPT !.effects = @ + 1]
          /\ Stage("notify")
          /\ \E sent \in (IF config.whatsapp THEN MayFail ELSE {TRUE}) :
               /\ faults' = faults + Cost(sent)
               /\ cand' = Failed("notify", sent)
     ELSE UNCHANGED <<hist, run, log, cand, faults>>
  /\ UNCHANGED <<mailbox, arrived, config, requirements, today, file_processed,
                 file_replies, processed_emails, sent_reply_emails, email_ids,
                 idx, replies, prev, runs>>

\* if candidate_data['score'] >= passing_score: send_whatsapp_notification,
\* which returns at once without a handler and else calls send_message, where
\* a failure is caught and logged
Notify ==
  /\ pc = "notify"
  /\ pc' = "reply"
  /\ IF cand.score >= config.passing_score
     THEN /\ hist' = [hist EXCEPT ![CurId].notify = @ + 1]
          /\ run' = [run EXCEPT !.effects = @ + 1]
          /\ Stage("notify")
          /\ \E sent \in (IF config.whatsapp THEN MayFail ELSE {TRUE}) :
               /\ faults' = faults + Cost(sent)
               /\ cand' = Failed("notify", sent)
     ELSE UNCHANGED <<hist, run, log, cand, faults>>
  /\ UNCHANGED <<mailbox, arrived, config, requirements, today, file_processed,
                 file_replies, processed_emails, sent_reply_emails, email_ids,
                 idx, replies, prev, runs>>

\* variant: the key is recorded whatever send_auto_reply returned
ReplyRecordsFailure ==
  /\ pc = "reply"
  /\ LET app_identifier == ReplyKey(cand.email, today)
     IN IF config.auto_reply /\ cand.email # <<>>
           /\ app_identifier \notin sent_reply_emails
        THEN /\ hist' = [hist EXCEPT ![CurId].reply = @ + 1]
             /\ run' = [run EXCEPT !.effects = @ + 1]
             /\ Stage("reply")
             /\ \E success \in MayFail :
                  /\ faults' = faults + Cost(success)
                  /\ replies' = IF success
                                THEN replies \cup
                                       {[key |-> app_identifier, id |-> CurId, run |-> runs]}
                                ELSE replies
                  /\ cand' = [cand EXCEPT !.key = app_identifier]
                  /\ pc' = "reply_save"
        ELSE /\ pc' = "mark"
             /\ UNCHANGED <<hist, run, log, replies, cand, faults>>
  /\ UNCHANGED <<mailbox, arrived, config, requirements, today, file_processed,
                 file_replies, processed_emails, sent_reply_emails, email_ids,
                 idx, prev, runs>>

\* variant: a failed send goes back to the notification step
ReplyRepeatsNotify ==
  /\ pc = "reply"
  /\ LET app_identifier == ReplyKey(cand.email, today)
     IN IF config.auto_reply /\ cand.email # <<>>
           /\ app_identifier \notin sent_reply_emails
        THEN /\ hist' = [hist EXCEPT ![CurId].reply = @ + 1]
             /\ run' = [run EXCEPT !.effects = @ + 1]
             /\ Stage("reply")
             /\ \E success \in MayFail :
                  /\ faults' = faults + Cost(success)
                  /\ IF success
                     THEN /\ replies' = replies \cup
                               {[key |-> app_identifier, id |-> CurId, run |-> runs]}
                          /\ cand' = [cand EXCEPT !.key = app_identifier]
                          /\ pc' = "reply_save"
                     ELSE /\ pc' = "notify"
                          /\ cand' = Failed("reply", FALSE)
                          /\ UNCHANGED replies
        ELSE /\ pc' = "mark"
             /\ UNCHANGED <<hist, run, log, replies, cand, faults>>
  /\ UNCHANGED <<mailbox, arrived, config, requirements, today, file_processed,
                 file_replies, processed_emails, sent_reply_emails, email_ids,
                 idx, prev, runs>>

\* variant: only a candidate who passed is replied to
ReplyOnlyPassed ==
  /\ pc = "reply"
  /\ LET app_identifier == ReplyKey(cand.email, today)
     IN IF config.auto_reply /\ cand.email # <<>> /\ cand.status = "Passed"
           /\ app_identifier \notin sent_reply_emails
        THEN /\ hist' = [hist EXCEPT ![CurId].reply = @ + 1]
             /\ run' = [run EXCEPT !.effects = @ + 1]
             /\ Stage("reply")
             /\ \E success \in MayFail :
                  /\ faults' = faults + Cost(success)
                  /\ IF success
                     THEN /\ replies' = replies \cup
                               {[key |-> app_identifier, id |-> CurId, run |-> runs]}
                          /\ cand' = [cand EXCEPT !.key = app_identifier]
                          /\ pc' = "reply_save"
                     ELSE /\ pc' = "mark"
                          /\ cand' = Failed("reply", FALSE)
                          /\ UNCHANGED replies
        ELSE /\ pc' = "mark"
             /\ UNCHANGED <<hist, run, log, replies, cand, faults>>
  /\ UNCHANGED <<mailbox, arrived, config, requirements, today, file_processed,
                 file_replies, processed_emails, sent_reply_emails, email_ids,
                 idx, prev, runs>>

\* the auto-reply block up to the return of send_auto_reply
Reply ==
  /\ pc = "reply"
  /\ LET app_identifier == ReplyKey(cand.email, today)
     IN IF config.auto_reply /\ cand.email # <<>>
           /\ app_identifier \notin sent_reply_emails
        THEN /\ hist' = [hist EXCEPT ![CurId].reply = @ + 1]
             /\ run' = [run EXCEPT !.effects = @ + 1]
             /\ Stage("reply")
             /\ \E success \in MayFail :
                  /\ faults' = faults + Cost(success)
                  /\ IF success
                     THEN /\ replies' = replies \cup
                               {[key |-> app_identifier, id |-> CurId, run |-> runs]}
                          /\ cand' = [cand EXCEPT !.key = app_identifier]
                          /\ pc' = "reply_save"
                     ELSE /\ pc' = "mark"
                          /\ cand' = Failed("reply", FALSE)
                          /\ UNCHANGED replies
        ELSE /\ pc' = "mark"
             /\ UNCHANGED <<hist, run, log, replies, cand, faults>>
  /\ UNCHANGED <<mailbox, arrived, config, requirements, today, file_processed,
                 file_replies, processed_emails, sent_reply_emails, email_ids,
                 idx, prev, runs>>

\* variant: the key is added to the set in memory but not written to the file
save_sent_reply_unwritten(identifier) ==
  /\ sent_reply_emails' = sent_reply_emails \cup {identifier}
  /\ file_replies' = file_replies

\* self.sent_reply_emails.add(identifier), then the line is appended
save_sent_reply(identifier) ==
  /\ sent_reply_emails' = sent_reply_emails \cup {identifier}
  /\ file_replies' = file_replies \cup {identifier}

\* if success: self.save_sent_reply(app_identifier)
ReplySave ==
  /\ pc = "reply_save"
  /\ pc' = "mark"
  /\ save_sent_reply(cand.key)
  /\ UNCHANGED <<mailbox, arrived, config, requirements, today, file_processed,
                 processed_emails, email_ids, idx, cand, log, hist, replies,
                 run, prev, runs, faults>>

\* variant: the id is added to the set in memory but not written to the file
save_processed_email_unwritten(email_id) ==
  /\ processed_emails' = processed_emails \cup {email_id}
  /\ file_processed' = file_processed

\* variant: the file is opened for writing instead of appending
save_processed_email_truncating(email_id) ==
  /\ processed_emails' = processed_emails \cup {email_id}
  /\ file_processed' = {email_id}

save_processed_email(email_id) ==
  /\ processed_emails' = processed_emails \cup {email_id}
  /\ file_processed' = file_processed \cup {email_id}

\* variant: an attempt that raised is left unrecorded
MarkUnlessRaised ==
  /\ pc = "mark"
  /\ pc' = "loop"
  /\ idx' = idx + 1
  /\ IF \E k \in 1..Len(log) : log[k] = "raise"
     THEN UNCHANGED <<processed_emails, file_processed>>
     ELSE save_processed_email(IdStr(CurId))
  /\ Stage("mark")
  /\ UNCHANGED <<mailbox, arrived, config, requirements, today, file_replies,
                 sent_reply_emails, email_ids, cand, hist, replies, run, prev,
                 runs, faults>>

\* variant: the loop stays at the id it has just recorded
MarkInPlace ==
  /\ pc = "mark"
  /\ pc' = "loop"
  /\ idx' = idx
  /\ save_processed_email(IdStr(CurId))
  /\ Stage("mark")
  /\ UNCHANGED <<mailbox, arrived, config, requirements, today, file_replies,
                 sent_reply_emails, email_ids, cand, hist, replies, run, prev,
                 runs, faults>>

\* variant: an attempt whose reply failed is left unrecorded
MarkUnlessReplyFailed ==
  /\ pc = "mark"
  /\ pc' = "loop"
  /\ idx' = idx + 1
  /\ IF "reply" \in cand.failed
     THEN UNCHANGED <<processed_emails, file_processed>>
     ELSE save_processed_email(IdStr(CurId))
  /\ Stage("mark")
  /\ UNCHANGED <<mailbox, arrived, config, requirements, today, file_replies,
                 sent_reply_emails, email_ids, cand, hist, replies, run, prev,
                 runs, faults>>

\* process_application has returned: self.save_processed_email(email_id_str)
Mark ==
  /\ pc = "mark"
  /\ pc' = "loop"
  /\ idx' = idx + 1
  /\ save_processed_email(IdStr(CurId))
  /\ Stage("mark")
  /\ UNCHANGED <<mailbox, arrived, config, requirements, today, file_replies,
                 sent_reply_emails, email_ids, cand, hist, replies, run, prev,
                 runs, faults>>

Next ==
  \/ Arrive
  \/ Tick
  \/ Kill
  \/ Start
  \/ Search
  \/ Loop
  \/ Fetch
  \/ Parse
  \/ Classify
  \/ Extract
  \/ Score
  \/ Store
  \/ Notify
  \/ Reply
  \/ ReplySave
  \/ Mark

Spec == Init /\ [][Next]_vars

\* the runs that end by themselves: every step but the external kill
NextRuns ==
  \/ Arrive
  \/ Tick
  \/ Start
  \/ Search
  \/ Loop
  \/ Fetch
  \/ Parse
  \/ Classify
  \/ Extract
  \/ Score
  \/ Store
  \/ Notify
  \/ Reply
  \/ ReplySave
  \/ Mark

SpecRuns == Init /\ [][NextRuns]_vars

\* the same runs, where a process that is up does not stay for ever at one
\* place of the run: every call of start() and of process_new_emails()
\* returns, and the interpreter goes on with the next statement
SpecRunsFair ==
  SpecRuns /\ WF_<<pc, idx>>(/\ pc # "down"
                             /\ pc' \in {"down", "search", "loop", "fetch", "parse",
                                          "classify", "extract", "score", "store",
                                          "notify", "reply", "reply_save", "mark"}
                             /\ idx' \in 0..(Len(email_ids) + 1)
                             /\ <<pc', idx'>> # <<pc, idx>>)

(***************************************************************************)
(* The rubric on its own: score_candidate applied to a CV text, a          *)
(* requirements profile and a scoring configuration drawn from the sets    *)
(* below.                                                                  *)
(***************************************************************************)
MaxCfgScore == 11
MaxMinExp == 3

TermPy == <<"p", "y">>
TermJava == <<"j", "a", "v", "a">>
TermMsc == <<"M", "S", "c">>

CvFrags ==
  {<<"g", "o">>,
   <<"P", "y", " ", "5", " ", "y", "e", "a", "r", "s">>,
   <<"1", "+", " ", "Y", "e", "a", "r", " ", "j", "a", "v", "a">>,
   <<"m", "s", "c", " ", "1", "2", "y", "e", "a", "r", "s">>}

CvTexts ==
  {<<>>,
   <<"g", "o", " ", "P", "y", " ", "5", " ", "y", "e", "a", "r", "s", " ",
     "1", "+", " ", "Y", "e", "a", "r", " ", "j", "a", "v", "a">>}
  \cup CvFrags \cup {a \o <<" ">> \o b : a \in CvFrags, b \in CvFrags}

RubricProfiles ==
  {Req(rs, ps, me, ed, kw, TRUE) :
     rs \in {<<>>, <<TermGo>>, <<TermGo, TermPy>>, <<TermPy, TermJava, TermGo>>},
     ps \in {<<>>, <<TermPy, TermJava>>},
     me \in 0..MaxMinExp,
     ed \in {<<>>, <<TermMsc>>},
     kw \in {<<>>, <<TermGo>>, <<TermJava, TermMsc, TermGo>>}}

RubricConfigs ==
  {Cfg(p, m, TRUE, "csv", TRUE) : p \in {1, DefaultPassing, MaxCfgScore}, m \in 0..MaxCfgScore}

RubricInit ==
  /\ mailbox = [i \in MsgIds |-> MsgChat]
  /\ arrived = 0
  /\ config \in RubricConfigs
  /\ requirements \in RubricProfiles
  /\ today = 1
  /\ file_processed = {}
  /\ file_replies = {}
  /\ processed_emails = {}
  /\ sent_reply_emails = {}
  /\ pc = "rubric"
  /\ email_ids = <<>>
  /\ idx = 0
  /\ \E text \in CvTexts : cand = [NoCand EXCEPT !.cv_content = text]
  /\ log = <<>>
  /\ hist = [i \in MsgIds |-> NoHist]
  /\ replies = {}
  /\ run = NoRun
  /\ prev = [window |-> <<>>, clean |-> FALSE, killed |-> FALSE, at |-> "none"]
  /\ runs = 0
  /\ faults = 0

\* score_data = self.score_candidate(candidate_data); candidate_data.update(score_data)
Rubric ==
  /\ pc = "rubric"
  /\ pc' = "rubric_done"
  /\ LET score_data == score_candidate(cand.cv_content, requirements, config)
     IN cand' = [cand EXCEPT !.scored = TRUE,
                             !.score = score_data.score,
                             !.status = score_data.status,
                             !.feedback = score_data.feedback,
                             !.parts = score_data.parts]
  /\ UNCHANGED <<mailbox, arrived, config, requirements, today, file_processed,
                 file_replies, processed_emails, sent_reply_emails, email_ids,
                 idx, log, hist, replies, run, prev, runs, faults>>

RubricNext == Rubric

SpecRubric == RubricInit /\ [][RubricNext]_vars

(***************************************************************************)
(* The classifier on its own: the classification step of                   *)
(* process_application applied to one message drawn from the set below.    *)
(***************************************************************************)
ClassifierSubjects == {SubjJob, SubjHi, <<"R", "E", ":", " ", "O", "p", "e", "n", " ", "R", "O", "L", "E">>}

ClassifierSenders == {HdrAlice, HdrPortal, <<"J", "o", " ", "<", "j", "o", "@", "m", "a", "i", "l", ".", "I", "n", "d", "e", "e", "d", ".", "C", "O", "M", ">">>}

ClassifierFiles ==
  {<<>>,
   << <<"C", "V", ".", "p", "d", "f">> >>,
   << <<"n", "o", "t", "e", "s", ".", "p", "d", "f">> >>,
   << <<"c", "v", ".", "t", "x", "t">> >>,
   << <<"c", "v", ".", "p", "d", "f", ".", "e", "x", "e">> >>,
   << <<"m", "y", "_", "r", "e", "s", "u", "m", "e", ".", "d", "o", "c">> >>,
   << <<"V", "i", "t", "a", "e", ".", "D", "O", "C", "X">> >>,
   << <<"r", "e", "s", "u", "m", "e", ".", "d", "o", "c", "u", "m", "e", "n", "t">> >>,
   << <<"p", "h", "o", "t", "o", ".", "p", "n", "g">>,
      <<"c", "u", "r", "r", "i", "c", "u", "l", "u", "m", ".", "d", "o", "c", "x">> >>}

ClassifierMsgs ==
  {Msg(TRUE, h, subj, [k \in 1..Len(names) |-> Part(TRUE, names[k], TxtWeak)]) :
     h \in ClassifierSenders, subj \in ClassifierSubjects, names \in ClassifierFiles}

ClassifierInit ==
  /\ \E m \in ClassifierMsgs : mailbox = [i \in MsgIds |-> IF i = 1 THEN m ELSE MsgChat]
  /\ arrived = 1
  /\ \E s \in Setups : config = s[1] /\ requirements = s[2]
  /\ today = 1
  /\ file_processed = {}
  /\ file_replies = {}
  /\ processed_emails = {}
  /\ sent_reply_emails = {}
  /\ pc = "classify"
  /\ email_ids = <<1>>
  /\ idx = 1
  /\ cand = [NoCand EXCEPT !.email = GateEmail(extract_email(mailbox[1].from))]
  /\ log = <<"fetch", "parse">>
  /\ hist = [i \in MsgIds |-> IF i = 1 THEN [NoHist EXCEPT !.fetch = 1] ELSE NoHist]
  /\ replies = {}
  /\ run = [NoRun EXCEPT !.window = <<1>>]
  /\ prev = [window |-> <<>>, clean |-> FALSE, killed |-> FALSE, at |-> "none"]
  /\ runs = 1
  /\ faults = 0

SpecClassifier == ClassifierInit /\ [][Classify]_vars

(***************************************************************************)
(* The batch cap alone: search windows around and beyond the cap, filled   *)
(* with messages that the classifier rejects, met by runs without          *)
(* failures.                                                               *)
(***************************************************************************)
BatchOver == 2

BatchIds == 1..(BatchCap + BatchOver)

BatchWindows == {0, 1, BatchCap - 1} \cup (BatchCap..(BatchCap + BatchOver))

BatchInit ==
  /\ mailbox = [i \in BatchIds |-> MsgChat]
  /\ arrived \in BatchWindows
  /\ config = Cfg(DefaultPassing, DefaultMax, TRUE, "csv", TRUE)
  /\ requirements = ProfileGo
  /\ today = 1
  /\ file_processed = {}
  /\ file_replies = {}
  /\ processed_emails = {}
  /\ sent_reply_emails = {}
  /\ pc = "down"
  /\ email_ids = <<>>
  /\ idx = 0
  /\ cand = NoCand
  /\ log = <<>>
  /\ hist = [i \in BatchIds |-> NoHist]
  /\ replies = {}
  /\ run = NoRun
  /\ prev = [window |-> <<>>, clean |-> FALSE, killed |-> FALSE, at |-> "none"]
  /\ runs = 0
  /\ faults = MaxFaults

BatchNext ==
  \/ Start
  \/ Search
  \/ Loop
  \/ Fetch
  \/ Parse
  \/ Classify
  \/ Mark

SpecBatch == BatchInit /\ [][BatchNext]_vars

\* the same runs, where a process that can take a step takes one and a new
\* process is started as long as the bound on the runs allows it
SpecBatchFair == SpecBatch /\ WF_vars(BatchNext)

(***************************************************************************)
(* Candidate data alone: one accepted message, of every structure and      *)
(* subject below, at the point where the classification has passed.        *)
(***************************************************************************)
\* subjects for every pattern and every fallback
ExtractSubjects ==
  {SubjJob, SubjHi, <<>>,
   \* pattern 1
   <<"A", "p", "p", "l", "y", "i", "n", "g", " ", "f", "o", "r", " ", "t", "h", "e", " ", "R", "u", "s", "t", " ", "r", "o", "l", "e">>,
   \* patterns 1 and 3 give a title of 2 characters: first words
   <<"A", "p", "p", "l", "y", "i", "n", "g", " ", "f", "o", "r", " ", "t", "h", "e", " ", "G", "o", " ", "r", "o", "l", "e">>,
   \* pattern 2
   <<"G", "o", " ", "D", "e", "v", " ", "a", "p", "p", "l", "i", "c", "a", "t", "i", "o", "n">>,
   \* pattern 3 gives a title of 2 characters: default
   <<"C", "V", " ", "f", "o", "r", " ", "Q", "A">>,
   \* pattern 4
   <<"p", "o", "s", "i", "t", "i", "o", "n", ":", " ", "D", "e", "v">>,
   \* pattern 5
   <<"R", "o", "l", "e", ":", " ", " ", "D", "e", "v", "_", "O", "p", "s", " ", "-", " ", "E", "U">>,
   \* pattern 6
   <<"a", "p", "p", "l", "i", "c", "a", "t", "i", "o", "n", " ", "t", "o", " ", "O", "p", "s", "@">>,
   \* pattern 7
   <<"-", " ", "D", "e", "v", ":">>,
   \* catalogue
   <<"a", " ", "u", "i", "/", "u", "x", " ", "d", "e", "s", "i", "g", "n", "e", "r">>,
   \* first words
   <<"H", "e", "l", "l", "o", " ", "t", "h", "e", "r", "e", " ", "f", "r", "i", "e", "n", "d", "s">>,
   \* one word
   <<"D", "e", "v", "e", "l", "o", "p", "e", "r", "s">>,
   \* two short words
   <<"m", "y", " ", "c", "v">>}

\* parts a message is made of: text bodies, and files that parse to a
\* text, parse to nothing, are of no parsed type, cannot be saved, or have
\* no Content-Disposition
ExtractParts ==
  {TextPart(<<"h", "i">>),
   TextPart(<<"+", "1", " ", "(", "5", "5", "5", ")", " ", "1", "2", "3", "-", "4", "5", "6", "7">>),
   TextPart(<<"t", "e", "l", " ", "1", "5", "5", "5", "1", "2", "3", "4", "5", "6", "7">>),
   Part(TRUE, <<"c", "v", ".", "p", "d", "f">>, TxtStrong),
   Part(TRUE, <<"n", ".", "t", "x", "t">>, TxtWeak),
   Part(TRUE, <<"a", ".", "p", "d", "f">>, <<>>),
   Part(TRUE, <<"p", ".", "p", "n", "g">>, TxtWeak),
   Part(TRUE, <<"x", "/", "c", "v", ".", "p", "d", "f">>, TxtWeak),
   Part(FALSE, <<"c", "v", ".", "d", "o", "c">>, TxtWeak)}

MaxParts == 2

RECURSIVE PartLists(_)
PartLists(n) ==
  IF n = 0 THEN {<<>>}
  ELSE PartLists(n - 1)
       \cup {Append(ps, p) : ps \in PartLists(n - 1), p \in ExtractParts}

\* a message that is not multipart is its only part
ExtractMsgs ==
  {Mail(TRUE, HdrAlice, sub, ps) :
     sub \in ExtractSubjects, ps \in PartLists(MaxParts) \ {<<>>}}
  \cup {Mail(FALSE, HdrAlice, sub, <<p>>) : sub \in ExtractSubjects, p \in ExtractParts}

ExtractInit ==
  /\ \E m \in ExtractMsgs : mailbox = [i \in MsgIds |-> IF i = 1 THEN m ELSE MsgChat]
  /\ arrived = 1
  /\ config = Cfg(DefaultPassing, DefaultMax, TRUE, "csv", TRUE)
  /\ requirements \in {ProfileGo, ProfileUnnamed}
  /\ today = 1
  /\ file_processed = {}
  /\ file_replies = {}
  /\ processed_emails = {}
  /\ sent_reply_emails = {}
  /\ pc = "extract"
  /\ email_ids = <<1>>
  /\ idx = 1
  /\ cand = [NoCand EXCEPT !.email = GateEmail(extract_email(mailbox[1].from))]
  /\ log = <<"fetch", "parse", "classify">>
  /\ hist = [i \in MsgIds |-> IF i = 1 THEN [NoHist EXCEPT !.fetch = 1] ELSE NoHist]
  /\ replies = {}
  /\ run = [NoRun EXCEPT !.window = <<1>>]
  /\ prev = [window |-> <<>>, clean |-> FALSE, killed |-> FALSE, at |-> "none"]
  /\ runs = 1
  /\ faults = 0

SpecExtract == ExtractInit /\ [][Extract]_vars

(***************************************************************************)
(* Replies that fail: applications of one sender, auto-reply on, and runs  *)
(* that may meet two failures (a failed send and a kill, or two failed     *)
(* sends).                                                                  *)
(***************************************************************************)
RetryFaults == 2

RetryInit ==
  /\ mailbox \in [MsgIds -> {MsgApply, MsgAgain}]
  /\ arrived \in 0..NumMsgs
  /\ config = Cfg(DefaultPassing, DefaultMax, TRUE, "csv", TRUE)
  /\ requirements = ProfileGo
  /\ today = 1
  /\ file_processed = {}
  /\ file_replies = {}
  /\ processed_emails = {}
  /\ sent_reply_emails = {}
  /\ pc = "down"
  /\ email_ids = <<>>
  /\ idx = 0
  /\ cand = NoCand
  /\ log = <<>>
  /\ hist = [i \in MsgIds |-> NoHist]
  /\ replies = {}
  /\ run = NoRun
  /\ prev = [window |-> <<>>, clean |-> FALSE, killed |-> FALSE, at |-> "none"]
  /\ runs = 0
  /\ faults = MaxFaults - RetryFaults

SpecRetry == RetryInit /\ [][Next]_vars

(***************************************************************************)
(* Properties                                                              *)
(***************************************************************************)
\* the for loop has passed the last id of the batch
RunCompleted == pc = "loop" /\ idx > Len(email_ids)

\* the stages of one attempt, in the order of process_application
Rank(stage) ==
  CASE stage = "fetch" -> 1
    [] stage = "parse" -> 2
    [] stage = "classify" -> 3
    [] stage = "reject" -> 3
    [] stage = "extract" -> 4
    [] stage = "score" -> 5
    [] stage = "store" -> 6
    [] stage = "notify" -> 7
    [] stage = "reply" -> 8
    [] stage = "raise" -> 8
    [] stage = "mark" -> 9

InAttempt == {"parse", "classify", "extract", "score", "store", "notify",
              "reply", "reply_save", "mark"}

\* what the header of each message yields before the contact gate
RawEmailOf == [m \in MsgKinds |-> extract_email(m.from)]

\* the messages without a usable sender address
GatedKinds ==
  {m \in MsgKinds : \/ RawEmailOf[m] = <<>>
                    \/ ~_is_valid_email(RawEmailOf[m])
                    \/ _is_automated_email(RawEmailOf[m])}

\* the messages that parse and that the classifier rejects
RejectedKinds ==
  {m \in MsgKinds : m.raw_ok /\ ~is_job_application(m.subject, m)}

RawEmail(i) == RawEmailOf[mailbox[i]]
Gated(i) == mailbox[i] \in GatedKinds
Rejected(i) == mailbox[i] \in RejectedKinds

\* C1: when a run completes over the window of the run before it, which
\* also completed with every fetch OK, it makes no storage, notification or
\* reply call and both ledger sets are what they were when it started.
C1_SecondRunIdle ==
  (RunCompleted /\ run.clean /\ prev.clean /\ prev.window = run.window)
    => /\ run.effects = 0
       /\ processed_emails = run.processed0
       /\ sent_reply_emails = run.replies0
       /\ LoadLines(file_processed) = run.processed0
       /\ LoadLines(file_replies) = run.replies0

\* a second complete run over a window in which the first run stored a record
C1_Witness ==
  /\ RunCompleted /\ run.clean /\ prev.clean /\ prev.window = run.window
  /\ runs = 2
  /\ \E k \in 1..Len(email_ids) : hist[email_ids[k]].store = 1

\* C2: at most one reply is sent per sender address and calendar date: no
\* reply key has two successful sends.  It holds under SpecRuns (runs that
\* end by themselves) and fails under Spec, where a process killed between
\* send_auto_reply and save_sent_reply leaves the key unrecorded.
C2_OneReplyPerSenderDay ==
  \A r1 \in replies : \A r2 \in replies : r1.key = r2.key => r1 = r2

\* two accepted messages of one sender handled on the same date, one reply
C2_Witness ==
  \E i \in MsgIds : \E j \in MsgIds :
    /\ i # j
    /\ ~Gated(i) /\ RawEmail(i) = RawEmail(j)
    /\ hist[i].store >= 1 /\ hist[j].store >= 1
    /\ IdStr(i) \in file_processed /\ IdStr(j) \in file_processed
    /\ today = 1
    /\ \E r \in replies : r.id = i

\* C3 as stated: no message is fetched, scored or stored more than once.
C3_NeverTwice ==
  \A i \in MsgIds : hist[i].fetch <= 1 /\ hist[i].score <= 1 /\ hist[i].store <= 1

\* C3 amended: once an id is on the processed-id file, no stage is ever
\* performed for it again, across runs, kills and restarts.
C3_NoStageAfterRecorded ==
  [][\A i \in MsgIds : IdStr(i) \in file_processed => hist'[i] = hist[i]]_vars

\* a process started after a kill has skipped an id recorded before the kill
C3_Witness ==
  /\ prev.killed
  /\ pc = "loop" /\ idx > 1
  /\ IdStr(email_ids[1]) \in run.processed0
  /\ hist[email_ids[1]].fetch = 1

\* C4: every key in the reply ledger has a successful send; a failed send
\* leaves the ledger as it was; and whenever the reply block is reached with
\* auto-reply on, an address and a key that is not in the ledger, a send is
\* attempted.
C4_KeyOnlyAfterSuccess ==
  [][/\ \A k \in sent_reply_emails' \cup file_replies' :
          \E r \in replies' : r.key = k
     /\ (pc = "reply" /\ pc' = "mark" /\ hist' # hist)
          => /\ sent_reply_emails' = sent_reply_emails
             /\ file_replies' = file_replies
             /\ ReplyKey(cand.email, today) \notin sent_reply_emails'
     /\ (pc = "reply" /\ pc' \in {"mark", "reply_save"} /\ config.auto_reply
         /\ cand.email # <<>>
         /\ ReplyKey(cand.email, today) \notin sent_reply_emails)
          => hist'[CurId].reply = hist[CurId].reply + 1]_vars

\* after a failed send, a later message of the same sender is replied to on
\* the same date
C4_Witness ==
  /\ pc = "reply_save"
  /\ today = 1
  /\ \E i \in MsgIds :
       /\ i # CurId
       /\ mailbox[i].from = CurMsg.from
       /\ hist[i].reply = 1
       /\ \A r \in replies : r.id # i

\* C5: once the notification step of an attempt is past, the notification
\* was invoked exactly when the score reached the passing score, which is
\* exactly when the status is Passed; an attempt without a score (rejected
\* or failed) never invokes it.
C5_NotifyIffPassing ==
  /\ (pc \in {"reply", "reply_save", "mark"} /\ cand.scored)
       => /\ ("notify" \in Range(log)) <=> (cand.score >= config.passing_score)
          /\ ("notify" \in Range(log)) <=> (cand.status = "Passed")
  /\ (pc \in InAttempt /\ ~cand.scored) => "notify" \notin Range(log)
  /\ \A i \in MsgIds : Rejected(i) => hist[i].notify = 0

\* a candidate whose score equals the passing score has been notified
C5_Witness ==
  /\ pc = "reply"
  /\ cand.score = config.passing_score
  /\ "notify" \in Range(log)

\* C6: the rubric returns a score between 0 and max_score and the status
\* Passed exactly when the score reaches the passing score, Review otherwise.
C6_ScoreBounds ==
  (pc = "rubric_done")
    => /\ 0 <= cand.score /\ cand.score <= config.max_score
       /\ cand.status \in {"Passed", "Review"}
       /\ (cand.status = "Passed") <=> (cand.score >= config.passing_score)

\* a rubric total above max_score was cut down to it
C6_Witness ==
  /\ pc = "rubric_done"
  /\ RawScore(Lower(cand.cv_content), requirements) > config.max_score
  /\ cand.score = config.max_score
  /\ cand.status = "Passed"

\* C7: a message whose sender address is missing, invalid or automated is
\* handled with an empty address, never gets a reply attempt, and no key
\* built from its address enters the reply ledger.
C7_ContactGate ==
  /\ \A i \in MsgIds :
       Gated(i) => /\ hist[i].reply = 0
                   /\ \A r \in replies : r.id # i
                   /\ \A d \in 1..MaxDay :
                        RawEmail(i) # <<>> =>
                          ReplyKey(RawEmail(i), d) \notin sent_reply_emails \cup file_replies
  /\ (pc \in (InAttempt \ {"parse"}) /\ "parse" \in Range(log) /\ Gated(CurId))
       => cand.email = <<>>

\* a passing application from an automated address is past the reply block
C7_Witness ==
  /\ pc = "mark"
  /\ Gated(CurId) /\ RawEmail(CurId) # <<>>
  /\ cand.status = "Passed"
  /\ config.auto_reply
  /\ "notify" \in Range(log)

\* C8: a rejected message is never scored, stored, notified or replied to;
\* the step that ends its attempt adds its id to the processed set and file
\* and leaves the reply ledger alone; once recorded it is never fetched again.
C8_RejectedOnlyMarked ==
  [][\A i \in MsgIds :
       Rejected(i) =>
         /\ hist'[i].score = 0 /\ hist'[i].store = 0
         /\ hist'[i].notify = 0 /\ hist'[i].reply = 0
         /\ (pc \in {"classify", "mark"} /\ pc' # "down" /\ CurId = i)
              => /\ sent_reply_emails' = sent_reply_emails
                 /\ file_replies' = file_replies
         /\ (pc = "mark" /\ pc' # "down" /\ CurId = i)
              => /\ IdStr(i) \in processed_emails'
                 /\ IdStr(i) \in file_processed'
         /\ IdStr(i) \in file_processed => hist'[i].fetch = hist[i].fetch]_vars

\* a later run has passed over a rejected message it found recorded
C8_Witness ==
  /\ runs = 2
  /\ pc = "loop" /\ idx > 1
  /\ Rejected(email_ids[1])
  /\ IdStr(email_ids[1]) \in run.processed0
  /\ hist[email_ids[1]].fetch = 1

\* C9: a stage that raises ends the attempt only: the loop goes on to mark
\* the id and to the next id of the same batch, and nothing but a kill stops
\* the process in the middle of an attempt.
C9_BatchIsolation ==
  [][/\ (pc \in InAttempt /\ log' = Append(log, "raise"))
          => pc' = "mark" /\ idx' = idx /\ email_ids' = email_ids
     /\ (pc = "mark" /\ pc' # "down")
          => pc' = "loop" /\ idx' = idx + 1 /\ email_ids' = email_ids
     /\ (pc \in InAttempt /\ pc' = "down") => faults' = faults + 1]_vars

\* the message after one whose attempt raised has been stored
C9_Witness ==
  /\ pc \in InAttempt
  /\ idx > 1
  /\ "store" \in Range(log)
  /\ hist[email_ids[idx - 1]].fetch = 1
  /\ hist[email_ids[idx - 1]].store = 0
  /\ ~Rejected(email_ids[idx - 1])
  /\ IdStr(email_ids[idx - 1]) \in processed_emails

\* C10: the stages of an attempt occur in the forward order fetch, parse,
\* classify, extract, score, store, notify, reply, mark without repetition;
\* only the message the loop is at has stages performed, the loop moves
\* forward one id at a time, and nothing is done for an id in the processed set.
C10_StepOrder ==
  [][/\ \A a \in 1..Len(log') : \A b \in 1..Len(log') :
          a < b => Rank(log'[a]) < Rank(log'[b])
     /\ \A i \in MsgIds :
          hist'[i] # hist[i] =>
            /\ pc # "down" /\ idx \in 1..Len(email_ids) /\ CurId = i
            /\ IdStr(i) \notin processed_emails
     /\ (pc \notin {"down", "search"} /\ pc' # "down")
          => /\ email_ids' = email_ids
             /\ idx' \in {idx, idx + 1}
             /\ \A k \in 1..(Len(email_ids) - 1) : email_ids[k] < email_ids[k + 1]]_vars

\* an attempt that went through every stage
C10_Witness ==
  log = <<"fetch", "parse", "classify", "extract", "score", "store",
          "notify", "reply", "mark">>

\* the messages that parse, that the classifier accepts and whose
\* attachments can be saved
AcceptedKinds ==
  {m \in MsgKinds : /\ m.raw_ok
                    /\ is_job_application(m.subject, m)
                    /\ extract_cv_from_email(m) # "raise"}

Accepted(i) == mailbox[i] \in AcceptedKinds

\* C11: kill safety: a message whose attempt was cut by a kill before its id
\* was recorded is processed again by the next run, and this never gives a
\* second storage row, a second notification or a second reply for it.
C11_KillSafeReprocessing ==
  \A i \in MsgIds :
    /\ hist[i].sheet + hist[i].csv <= 1
    /\ hist[i].notify <= 1
    /\ Cardinality({r \in replies : r.id = i}) <= 1

\* C12: the ledger only grows: no step removes a line from either file or
\* an element from either set of a running process, the sets never hold
\* more than the files, and a new process starts from what the files hold.
C12_LedgerAppendOnly ==
  [][/\ file_processed \subseteq file_processed'
     /\ file_replies \subseteq file_replies'
     /\ processed_emails' \subseteq LoadLines(file_processed')
     /\ sent_reply_emails' \subseteq LoadLines(file_replies')
     /\ (pc # "down" /\ pc' # "down")
          => /\ processed_emails \subseteq processed_emails'
             /\ sent_reply_emails \subseteq sent_reply_emails'
     /\ (pc = "down" /\ pc' # "down")
          => /\ processed_emails' = LoadLines(file_processed)
             /\ sent_reply_emails' = LoadLines(file_replies)]_vars

\* a second process, started from a ledger that was not empty, has added to
\* both files
C12_Witness ==
  /\ runs = 2
  /\ pc = "loop"
  /\ run.processed0 # {}
  /\ Cardinality(file_processed) > Cardinality(run.processed0)
  /\ Cardinality(file_replies) > Cardinality(run.replies0)

\* C13: an accepted message without a usable sender address is scored,
\* stored (when a store is configured), notified exactly when its score
\* passes, not replied to, and its id is recorded.
C13_GateSuppressesReplyOnly ==
  [][/\ (pc = "mark" /\ Gated(CurId) /\ Accepted(CurId) /\ requirements.typed)
          => /\ cand.scored
             /\ "score" \in Range(log)
             /\ (config.storage # "none") <=> ("store" \in Range(log))
             /\ (cand.score >= config.passing_score) <=> ("notify" \in Range(log))
             /\ "reply" \notin Range(log)
             /\ pc' # "down" => IdStr(CurId) \in file_processed'
     /\ \A i \in MsgIds :
          (Gated(i) /\ Accepted(i) /\ requirements.typed /\ IdStr(i) \in file_processed')
            => hist'[i].score >= 1]_vars

\* an application from a job portal address below the passing score has been
\* stored and recorded without a notification or a reply
C13_Witness ==
  /\ pc = "loop" /\ idx > 1
  /\ Gated(email_ids[idx - 1]) /\ Accepted(email_ids[idx - 1])
  /\ IdStr(email_ids[idx - 1]) \in processed_emails
  /\ hist[email_ids[idx - 1]].store = 1
  /\ hist[email_ids[idx - 1]].reply = 0
  /\ config.auto_reply

\* C14: a sink that fails does not stop the attempt: a failed storage write
\* is followed by the notification step, a failed notification by the reply
\* step, a failed reply by the marking; after a failure the later steps
\* decide as they always do, the id is recorded and the loop moves to the
\* next id of the same batch.
C14_SinkFailureNotFatal ==
  [][/\ (pc = "store" /\ "store" \in cand'.failed) => pc' = "notify"
     /\ (pc = "notify" /\ "notify" \in cand'.failed) => pc' = "reply"
     /\ (pc = "reply" /\ "reply" \in cand'.failed) => pc' = "mark"
     /\ (pc \in {"store", "notify", "reply"} /\ cand'.failed # {})
          => idx' = idx /\ email_ids' = email_ids
     /\ (pc = "notify" /\ cand.failed # {} /\ pc' # "down")
          => ((hist'[CurId].notify = hist[CurId].notify + 1)
                <=> (cand.score >= config.passing_score))
     /\ (pc = "reply" /\ cand.failed # {} /\ pc' \notin {"down", "reply"})
          => ((hist'[CurId].reply = hist[CurId].reply + 1)
                <=> (/\ config.auto_reply
                     /\ cand.email # <<>>
                     /\ ReplyKey(cand.email, today) \notin sent_reply_emails))
     /\ (pc = "mark" /\ cand.failed # {} /\ pc' # "down")
          => /\ pc' = "loop" /\ idx' = idx + 1 /\ email_ids' = email_ids
             /\ IdStr(CurId) \in file_processed']_vars

\* the message after one whose storage write failed is being replied to;
\* the earlier one was notified, replied to and recorded
C14_Witness ==
  /\ pc = "reply_save"
  /\ idx > 1
  /\ hist[email_ids[idx - 1]].store = 1
  /\ hist[email_ids[idx - 1]].sheet + hist[email_ids[idx - 1]].csv = 0
  /\ hist[email_ids[idx - 1]].notify = 1
  /\ IdStr(email_ids[idx - 1]) \in file_processed
  /\ "store" \in Range(log)

\* C15: with the sheet as the configured store, every accepted message that
\* has been recorded has exactly one stored row, in the sheet or in the CSV
\* backup, unless a dispatch lost its row because the backup write failed too.
C15_OneRowOneSink ==
  \A i \in MsgIds :
    (/\ config.storage = "sheets"
     /\ Accepted(i) /\ requirements.typed
     /\ IdStr(i) \in file_processed)
      => /\ hist[i].sheet + hist[i].csv <= 1
         /\ \/ hist[i].sheet + hist[i].csv = 1
            \/ hist[i].store > hist[i].sheet + hist[i].csv

\* C15, one dispatch at a time: a storage step with the sheet configured
\* appends one row to the sheet, or else one row to the backup, or else none
\* when both writes failed.
C15_FallbackPerDispatch ==
  [][(pc = "store" /\ pc' # "down" /\ config.storage = "sheets")
       => LET sheet == hist'[CurId].sheet - hist[CurId].sheet
              csv == hist'[CurId].csv - hist[CurId].csv
          IN /\ hist'[CurId].store = hist[CurId].store + 1
             /\ <<sheet, csv>> \in {<<1, 0>>, <<0, 1>>, <<0, 0>>}
             /\ sheet = 1 <=> faults' = faults
             /\ csv = 1 <=> faults' = faults + 1
             /\ "store" \in cand'.failed <=> sheet = 0]_vars

\* C16: a failed connection ends the run at once: no stage is performed, no
\* sink is called and both files stay as they were; a fetch that raises ends
\* the run through the handler of process_new_emails: nothing is dispatched
\* or written, and every id of the batch not yet recorded stays unrecorded.
C16_TransportFailureEndsRun ==
  [][/\ (pc = "down" /\ faults' = faults + 1)
          => /\ pc' = "down" /\ prev'.at = "connect" /\ ~prev'.killed
             /\ hist' = hist /\ replies' = replies
             /\ file_processed' = file_processed /\ file_replies' = file_replies
     /\ (pc = "fetch" /\ pc' = "down" /\ ~prev'.killed)
          => /\ prev'.at = "fetch"
             /\ faults' = faults + 1
             /\ hist' = [hist EXCEPT ![CurId].fetch = @ + 1]
             /\ replies' = replies
             /\ file_processed' = file_processed /\ file_replies' = file_replies
             /\ \A k \in idx..Len(email_ids) :
                  IdStr(email_ids[k]) \notin processed_emails
                    => IdStr(email_ids[k]) \notin file_processed']_vars

\* the run stored and recorded the first message and ended when the fetch of
\* the second one raised
C16_Witness ==
  /\ pc = "down"
  /\ prev.at = "fetch" /\ ~prev.killed
  /\ Len(prev.window) = 2
  /\ hist[1].store = 1 /\ IdStr(1) \in file_processed
  /\ hist[2].fetch = 1 /\ IdStr(2) \notin file_processed

\* the three rules of the classifier as the specification words them
SubjectRule(m) ==
  \E kw \in Range(application_keywords) : Contains(kw, Lower(m.subject))

AttachmentRule(m) ==
  \E k \in 1..Len(m.parts) :
    /\ m.parts[k].filename # <<>>
    /\ FileExt(m.parts[k].filename) \in Range(cv_extensions)
    /\ \E kw \in Range(cv_name_keywords) : Contains(kw, Lower(m.parts[k].filename))

PortalRule(m) ==
  \E d \in Range(job_portal_domains) : Contains(d, Lower(m.from))

\* C17: the classification step accepts the message exactly when its subject
\* contains an application keyword, or an attachment has an extension in
\* {.pdf, .doc, .docx} and a CV keyword in its name, or the sender header
\* contains a job portal domain; otherwise it rejects it.
C17_ClassifierRules ==
  (pc \in {"extract", "mark"} /\ Len(log) = 3 /\ log[3] \in {"classify", "reject"})
    => ((log[3] = "classify")
          <=> (SubjectRule(CurMsg) \/ AttachmentRule(CurMsg) \/ PortalRule(CurMsg)))

\* C17, the direction that holds: a message that satisfies one of the three
\* rules is accepted.
C17_RulesSuffice ==
  (pc \in {"extract", "mark"} /\ Len(log) = 3 /\ log[3] \in {"classify", "reject"})
    => ((SubjectRule(CurMsg) \/ AttachmentRule(CurMsg) \/ PortalRule(CurMsg))
          => log[3] = "classify")

\* the terms of a list that occur in the lowercased CV text, compared
\* without regard to case
Present(terms, cv_content) ==
  {i \in 1..Len(terms) : Contains(Lower(terms[i]), Lower(cv_content))}

\* pts is the integer part of w * m / n
IsFloorOf(pts, w, m, n) == pts * n <= w * m /\ w * m < (pts + 1) * n

\* C18: for a non-empty list of n terms of which m occur in the CV text,
\* the required-skills sub-score is floor(3m/n), the preferred-skills and
\* keyword sub-scores are floor(2m/n), and the full weight is reached
\* exactly when m = n.
C18_SetScoreFloor ==
  (pc = "rubric_done")
    => \A d \in {<<requirements.required_skills, 3, cand.parts.required>>,
                 <<requirements.preferred_skills, 2, cand.parts.preferred>>,
                 <<requirements.keywords, 2, cand.parts.keywords>>} :
         d[1] # <<>>
           => LET n == Len(d[1])
                  m == Cardinality(Present(d[1], cand.cv_content))
              IN /\ IsFloorOf(d[3], d[2], m, n)
                 /\ d[3] = d[2] <=> m = n

\* two of three required skills are in the CV text: the sub-score is 2
C18_Witness ==
  /\ pc = "rubric_done"
  /\ Len(requirements.required_skills) = 3
  /\ Cardinality(Present(requirements.required_skills, cand.cv_content)) = 2
  /\ cand.parts.required = 2
  /\ Len(requirements.keywords) = 3
  /\ cand.parts.keywords = 1

\* C19: with a minimum r > 0 and y the first integer followed by year(s) in
\* the CV text, the experience sub-score is 2 when y >= r, 1 when y = r - 1,
\* 0 when y < r - 1, and 0 with the line "Could not determine" when there is
\* no such integer; without a minimum it is 2.
C19_ExperienceScore ==
  (pc = "rubric_done")
    => LET r == requirements.min_experience
           y == ExtractYears(Lower(cand.cv_content))
           e == cand.parts.experience
       IN /\ (r > 0 /\ y >= r) => e = 2
          /\ (r > 0 /\ y >= 0 /\ y = r - 1) => e = 1
          /\ (r > 0 /\ y >= 0 /\ y < r - 1) => e = 0
          /\ (r > 0 /\ y < 0)
               => /\ e = 0
                  /\ <<"Experience", "Could not determine">> \in Range(cand.feedback)
          /\ (r > 0 /\ y >= 0)
               => <<"Experience", "Could not determine">> \notin Range(cand.feedback)
          /\ r <= 0 => e = 2

\* a CV one year short of the minimum got one point
C19_Witness ==
  /\ pc = "rubric_done"
  /\ requirements.min_experience = 2
  /\ ExtractYears(Lower(cand.cv_content)) = 1
  /\ cand.parts.experience = 1

\* C20: with education terms configured the sub-score is 1 exactly when one
\* of them occurs in the CV text, else 0; without education terms it is 1.
C20_EducationScore ==
  (pc = "rubric_done")
    => /\ cand.parts.education \in {0, 1}
       /\ requirements.education # <<>>
            => (cand.parts.education = 1
                  <=> Present(requirements.education, cand.cv_content) # {})
       /\ requirements.education = <<>> => cand.parts.education = 1

\* a term written in capitals was found in the CV text
C20_Witness ==
  /\ pc = "rubric_done"
  /\ requirements.education # <<>>
  /\ \E i \in Present(requirements.education, cand.cv_content) :
       ~Contains(requirements.education[i], Lower(cand.cv_content))
  /\ cand.parts.education = 1

\* the three term lists of the profile with their feedback labels and the
\* points the scoring gave for them
SetDimensions ==
  {<<requirements.required_skills, "Required Skills", cand.parts.required>>,
   <<requirements.preferred_skills, "Preferred Skills", cand.parts.preferred>>,
   <<requirements.keywords, "Keywords", cand.parts.keywords>>}

\* C21: an empty required-skill, preferred-skill or keyword list gives that
\* dimension 0 points and no feedback line, whatever the CV text.
C21_EmptySetSkipped ==
  (pc = "rubric_done")
    => \A d \in SetDimensions :
         d[1] = <<>>
           => /\ d[3] = 0
              /\ \A k \in 1..Len(cand.feedback) : cand.feedback[k][1] # d[2]

\* a CV that names a skill was scored against a profile without any term
\* list: no set dimension gave points or a line
C21_Witness ==
  /\ pc = "rubric_done"
  /\ \A d \in SetDimensions : d[1] = <<>>
  /\ Contains(Lower(TermGo), Lower(cand.cv_content))
  /\ requirements.education # <<>>
  /\ cand.parts.required = 0 /\ cand.parts.preferred = 0
  /\ cand.parts.keywords = 0
  /\ Len(cand.feedback) = 2

\* C22 as stated: every dimension without a requirement gives its full
\* points, so a profile without any requirement scores the rubric total.
C22_EmptyFullCredit ==
  (pc = "rubric_done")
    => /\ requirements.required_skills = <<>> => cand.parts.required = 3
       /\ requirements.preferred_skills = <<>> => cand.parts.preferred = 2
       /\ requirements.keywords = <<>> => cand.parts.keywords = 2
       /\ requirements.education = <<>> => cand.parts.education = 1
       /\ requirements.min_experience <= 0 => cand.parts.experience = 2

\* C22 amended: only the experience dimension (no minimum: 2 points) and
\* the education dimension (no terms: 1 point) give full points without a
\* requirement; a profile without any requirement scores 3, cut to
\* max_score, and not the rubric total of 10.
C22_EmptyCredit ==
  (pc = "rubric_done")
    => /\ requirements.education = <<>> => cand.parts.education = 1
       /\ requirements.min_experience <= 0 => cand.parts.experience = 2
       /\ (/\ \A d \in SetDimensions : d[1] = <<>>
           /\ requirements.education = <<>>
           /\ requirements.min_experience <= 0)
            => cand.score = (IF config.max_score < 3 THEN config.max_score ELSE 3)

\* a profile without any requirement got 3 points under a max_score of 10
C22_Witness ==
  /\ pc = "rubric_done"
  /\ \A d \in SetDimensions : d[1] = <<>>
  /\ requirements.education = <<>>
  /\ requirements.min_experience = 0
  /\ config.max_score = DefaultMax
  /\ cand.score = 3
  /\ cand.status = "Review"

\* C23: the score is the sum of the five sub-scores, cut to max_score.
C23_TotalIsClampedSum ==
  (pc = "rubric_done")
    => LET sum == cand.parts.required + cand.parts.preferred
                  + cand.parts.experience + cand.parts.education
                  + cand.parts.keywords
       IN cand.score = (IF sum <= config.max_score THEN sum ELSE config.max_score)

\* every dimension gave points and their sum, below max_score, is the score
C23_Witness ==
  /\ pc = "rubric_done"
  /\ cand.parts.required > 0 /\ cand.parts.preferred > 0
  /\ cand.parts.experience > 0 /\ cand.parts.education > 0
  /\ cand.parts.keywords > 0
  /\ cand.score < config.max_score
  /\ cand.score = cand.parts.required + cand.parts.preferred
                   + cand.parts.experience + cand.parts.education
                   + cand.parts.keywords

MiddleStages == {"parse", "classify", "extract", "score", "store", "notify"}

\* C29: the reply-key file grows only by the key of a reply that was just
\* sent with success, the processed-id file only by the id of the message
\* whose attempt, begun by an OK fetch, has just ended; parsing,
\* classification, extraction, scoring, storage and notification leave both
\* files, and the sets in memory while the process lives, as they are.
C29_LedgerFrame ==
  [][/\ file_replies' # file_replies
          => /\ pc = "reply_save" /\ pc' = "mark"
             /\ log[Len(log)] = "reply"
             /\ "reply" \notin cand.failed
             /\ \E r \in replies : r.key = cand.key /\ r.id = CurId
             /\ file_replies' = file_replies \cup {cand.key}
     /\ file_processed' # file_processed
          => /\ pc = "mark" /\ pc' = "loop"
             /\ Len(log) >= 1 /\ log[1] = "fetch"
             /\ file_processed' = file_processed \cup {IdStr(CurId)}
     /\ pc \in MiddleStages
          => /\ UNCHANGED <<file_replies, file_processed>>
             /\ pc' # "down" => UNCHANGED <<processed_emails, sent_reply_emails>>
    ]_vars

\* both files have grown: a reply was sent and saved, and the attempt of a
\* stored candidate has ended
C29_Witness ==
  /\ pc = "loop"
  /\ file_replies # {}
  /\ file_processed # {}
  /\ \E k \in 1..Len(log) : log[k] = "reply"
  /\ \E k \in 1..Len(log) : log[k] = "store"
  /\ log[Len(log)] = "mark"

\* C30: the attempt of a message whose processing raised ends with the id
\* written to the processed-id file, and no later run fetches a recorded
\* message again, although it was neither stored nor answered.
C30_RaisedIsRecorded ==
  [][/\ (/\ pc = "mark" /\ pc' = "loop"
         /\ \E k \in 1..Len(log) : log[k] = "raise")
          => /\ IdStr(CurId) \in file_processed'
             /\ IdStr(CurId) \in processed_emails'
     /\ \A i \in MsgIds :
          (IdStr(i) \in file_processed /\ hist[i].store = 0 /\ hist[i].reply = 0)
            => hist'[i] = hist[i]
    ]_vars

\* a second run has gone through a window of messages whose processing had
\* raised in the first run: none was fetched again, stored or answered
C30_Witness ==
  /\ runs = 2
  /\ pc = "loop"
  /\ email_ids = <<1, 2>>
  /\ idx = 3
  /\ log = <<>>
  /\ faults = 0
  /\ \A i \in MsgIds :
       /\ ~mailbox[i].raw_ok \/ extract_cv_from_email(mailbox[i]) = "raise"
       /\ IdStr(i) \in file_processed
       /\ hist[i].fetch = 1 /\ hist[i].store = 0 /\ hist[i].reply = 0

\* C28: a run considers at most BatchCap messages, the last ids of the
\* search result in their order; the ids before them are neither fetched
\* nor recorded.
C28_BatchCap ==
  /\ pc \notin {"down", "search"}
       => /\ Len(email_ids) <= BatchCap
          /\ Len(email_ids) = (IF arrived > BatchCap THEN BatchCap ELSE arrived)
          /\ \A k \in 1..Len(email_ids) :
               email_ids[k] = arrived - Len(email_ids) + k
  /\ \A i \in 1..(arrived - BatchCap) :
       hist[i].fetch = 0 /\ IdStr(i) \notin file_processed

\* a run over a search result longer than the cap has ended: the last
\* BatchCap messages were fetched and recorded, the ones before them not
C28_Witness ==
  /\ arrived = BatchCap + BatchOver
  /\ pc = "down"
  /\ runs >= 1
  /\ prev.clean
  /\ Len(prev.window) = BatchCap
  /\ \A i \in (BatchOver + 1)..arrived :
       hist[i].fetch = 1 /\ IdStr(i) \in file_processed
  /\ \A i \in 1..BatchOver :
       hist[i].fetch = 0 /\ IdStr(i) \notin file_processed

\* the title of the first pattern whose cleaned title is longer than 2
PatternChoice(clean_subject) ==
  LET good == {k \in 1..NumPatterns : Len(PatternTitle(k, clean_subject)) > 2}
  IN IF good = {} THEN <<>>
     ELSE PatternTitle(CHOOSE k \in good : \A j \in good : k <= j, clean_subject)

\* the first catalogue title that the subject contains
CatalogueChoice(clean_subject) ==
  LET listed == {i \in 1..Len(common_titles) :
                   Contains(Lower(common_titles[i]), Lower(clean_subject))}
  IN IF listed = {} THEN <<>>
     ELSE common_titles[CHOOSE i \in listed : \A j \in listed : i <= j]

\* C25 as stated: the position is never empty; it is the title of the first
\* pattern whose cleaned title is longer than 2, else the first catalogue
\* title in the subject, else the cleaned first three words when longer
\* than 5, else the configured default.
C25_PositionTotal ==
  (pc # "extract")
    => LET clean_subject == Strip(CurMsg.subject)
       IN /\ cand.position # <<>>
          /\ cand.position =
               (IF PatternChoice(clean_subject) # <<>> THEN PatternChoice(clean_subject)
                ELSE IF CatalogueChoice(clean_subject) # <<>>
                THEN CatalogueChoice(clean_subject)
                ELSE IF Len(FirstWords(clean_subject)) > 5 THEN FirstWords(clean_subject)
                ELSE requirements.position)

\* C25 amended: the first words are taken only from a subject of at least
\* two words, and the position is non-empty whenever the configured default
\* is.
C25_PositionOrder ==
  (pc # "extract")
    => LET clean_subject == Strip(CurMsg.subject)
       IN /\ requirements.position # <<>> => cand.position # <<>>
          /\ cand.position =
               (IF PatternChoice(clean_subject) # <<>> THEN PatternChoice(clean_subject)
                ELSE IF CatalogueChoice(clean_subject) # <<>>
                THEN CatalogueChoice(clean_subject)
                ELSE IF /\ Len(Split(clean_subject)) >= 2
                        /\ Len(FirstWords(clean_subject)) > 5
                THEN FirstWords(clean_subject)
                ELSE requirements.position)

\* a subject of one word longer than 5 characters, matched by no pattern and
\* no catalogue title, got the configured default
C25_Witness ==
  /\ pc = "score"
  /\ Len(Split(CurMsg.subject)) = 1
  /\ Len(FirstWords(CurMsg.subject)) > 5
  /\ PatternChoice(CurMsg.subject) = <<>>
  /\ CatalogueChoice(CurMsg.subject) = <<>>
  /\ requirements.position = PositionGeneral
  /\ cand.position = PositionGeneral

\* the text/plain parts of the message whose body holds a phone number
PhoneParts(msg) == {i \in PlainParts(msg) : PhoneIn(msg.parts[i].body) # <<>>}

\* C26: the phone is the match of the first text/plain part that holds one,
\* and empty only when no text/plain part holds one.
C26_PhoneFromFirstPlainPart ==
  (pc # "extract")
    => cand.phone =
         (IF PhoneParts(CurMsg) = {} THEN <<>>
          ELSE PhoneIn(CurMsg.parts[CHOOSE i \in PhoneParts(CurMsg) :
                                      \A j \in PhoneParts(CurMsg) : i <= j].body))

\* the same for multipart messages alone
C26_MultipartPhone ==
  (pc # "extract" /\ CurMsg.multipart)
    => cand.phone =
         (IF PhoneParts(CurMsg) = {} THEN <<>>
          ELSE PhoneIn(CurMsg.parts[CHOOSE i \in PhoneParts(CurMsg) :
                                      \A j \in PhoneParts(CurMsg) : i <= j].body))

\* the attachments whose parsing gives a text
Yielding(msg) ==
  {i \in 1..Len(msg.parts) : IsAttachment(msg.parts[i]) /\ PartText(msg.parts[i]) # <<>>}

\* C27: the extraction returns, without raising, the text of the first
\* attachment whose parsing gives one, and the empty text when there is none.
C27_FirstParsableAttachment ==
  (pc # "extract")
    => /\ log[Len(log)] = "extract"
       /\ cand.cv_content =
            (IF Yielding(CurMsg) = {} THEN <<>>
             ELSE PartText(CurMsg.parts[CHOOSE i \in Yielding(CurMsg) :
                                          \A j \in Yielding(CurMsg) : i <= j]))

\* the same when every attachment up to the first that gives a text can be
\* saved; attachments after that one are not saved, whatever their names
C27_SavedAttachments ==
  (pc # "extract"
     /\ \A i \in 1..Len(CurMsg.parts) :
          (/\ IsAttachment(CurMsg.parts[i])
           /\ \A j \in Yielding(CurMsg) : i <= j)
            => ~SaveRaises(CurMsg.parts[i]))
    => /\ log[Len(log)] = "extract"
       /\ cand.cv_content =
            (IF Yielding(CurMsg) = {} THEN <<>>
             ELSE PartText(CurMsg.parts[CHOOSE i \in Yielding(CurMsg) :
                                          \A j \in Yielding(CurMsg) : i <= j]))

\* C31 as stated: whenever the loop of a run moves past an id, whatever the
\* fetch returned, the id is in the processed set and on its file.
C31_RecordedAfterEveryFetch ==
  [][(pc \in {"loop", "fetch", "mark"} /\ pc' = "loop" /\ idx' = idx + 1)
       => /\ IdStr(CurId) \in processed_emails'
          /\ IdStr(CurId) \in file_processed']_vars

\* C31 amended: the id is recorded when the loop moves past it after an
\* attempt that followed a fetch with status OK (complete, rejected or
\* raised) and when it was recorded before; a fetch with another status
\* moves the loop on and leaves the id out of the set and of the file.
C31_RecordedUnlessNotOK ==
  [][/\ (pc \in {"loop", "mark"} /\ pc' = "loop" /\ idx' = idx + 1)
          => /\ IdStr(CurId) \in processed_emails'
             /\ IdStr(CurId) \in file_processed'
     /\ (pc = "fetch" /\ pc' = "loop")
          => /\ idx' = idx + 1
             /\ processed_emails' = processed_emails
             /\ file_processed' = file_processed
             /\ IdStr(CurId) \notin processed_emails'
     /\ (pc = "fetch" /\ pc' = "parse") => idx' = idx]_vars

\* a run that ended by itself recorded the second id and left the first one
\* unrecorded after a fetch with another status, and the next run has
\* fetched the first id again and recorded it
C31_Witness ==
  /\ runs = 2
  /\ ~prev.killed /\ ~prev.clean
  /\ IdStr(2) \in run.processed0 /\ IdStr(1) \notin run.processed0
  /\ pc = "loop" /\ idx = 2
  /\ hist[1].fetch = 2
  /\ IdStr(1) \in file_processed

\* C32: the reply does not depend on the score: an accepted message whose
\* attempt does not raise reaches the reply block after it was scored, with
\* either status; there exactly one send is attempted when auto-reply is
\* on, the sender address is valid and not automated and the key of the
\* address and the date is not in the reply ledger, and none otherwise; no
\* other step attempts a send.
C32_ReplyWhateverScore ==
  [][/\ (pc = "reply" /\ pc' \in {"mark", "reply_save"})
          => /\ cand.scored /\ cand.status \in {"Passed", "Review"}
             /\ cand.email = (IF Gated(CurId) THEN <<>> ELSE RawEmail(CurId))
             /\ hist'[CurId].reply = hist[CurId].reply +
                  (IF /\ config.auto_reply
                      /\ ~Gated(CurId)
                      /\ ReplyKey(RawEmail(CurId), today) \notin sent_reply_emails
                   THEN 1 ELSE 0)
     /\ (pc' = "mark" /\ pc \in InAttempt \ {"mark"}
         /\ Accepted(CurId) /\ requirements.typed)
          => pc \in {"reply", "reply_save"}
     /\ \A i \in MsgIds :
          hist'[i].reply # hist[i].reply => pc = "reply" /\ i = CurId]_vars

\* a candidate under review has been replied to after a candidate who passed
C32_Witness ==
  /\ pc = "mark"
  /\ cand.status = "Review"
  /\ "reply" \in Range(log)
  /\ \E r \in replies : r.id # CurId /\ hist[r.id].notify = 1

\* the sends for message i that failed
FailedSends(i) == hist[i].reply - Cardinality({r \in replies : r.id = i})

\* C33 as stated: no reply is attempted for a message for which a send has
\* failed before.
C33_NeverRetried ==
  [][\A i \in MsgIds :
       hist'[i].reply > hist[i].reply => FailedSends(i) = 0]_vars

\* C33 amended: an attempt whose send has failed goes on to record the id;
\* from there the process either records it, in memory and in the file, or
\* is killed; and a reply is attempted only for the message the loop is at,
\* which is not recorded.  So a message with a failed send is attempted
\* again only when a process was killed before it recorded the id.
C33_RetriedOnlyAfterKill ==
  [][/\ (pc = "reply" /\ pc' = "mark" /\ hist'[CurId].reply > hist[CurId].reply)
          => /\ "reply" \in cand'.failed
             /\ idx' = idx
             /\ IdStr(CurId) \notin file_processed'
     /\ pc = "mark"
          => \/ /\ pc' = "loop"
                /\ IdStr(CurId) \in processed_emails'
                /\ IdStr(CurId) \in file_processed'
             \/ /\ pc' = "down"
                /\ prev'.killed
                /\ file_processed' = file_processed
     /\ \A i \in MsgIds :
          hist'[i].reply > hist[i].reply
            => /\ pc = "reply" /\ i = CurId
               /\ IdStr(i) \notin processed_emails
               /\ IdStr(i) \notin file_processed
               /\ FailedSends(i) > 0 => faults > MaxFaults - RetryFaults + 1]_vars

\* the send for the first message failed and the run recorded its id; the
\* next run has passed over it and replied to the next message of the sender
C33_Witness ==
  /\ runs = 2
  /\ ~prev.killed
  /\ IdStr(1) \in run.processed0
  /\ hist[1].reply = 1 /\ FailedSends(1) = 1
  /\ pc = "mark" /\ CurId = 2
  /\ mailbox[2].from = mailbox[1].from
  /\ \E r \in replies : r.id = 2 /\ r.run = 2

\* C34: the ledger in memory agrees with the files: in a running process,
\* from the load on and after every save, the processed set and the reply
\* set are the sets of lines of their files; a process ends with sets equal
\* to what the files hold, nothing writes the files while no process runs,
\* and the next process loads exactly these sets.
C34_LedgerAgrees ==
  [][/\ pc' # "down"
          => /\ processed_emails' = LoadLines(file_processed')
             /\ sent_reply_emails' = LoadLines(file_replies')
     /\ (pc # "down" /\ pc' = "down")
          => /\ processed_emails = LoadLines(file_processed')
             /\ sent_reply_emails = LoadLines(file_replies')
     /\ pc = "down"
          => /\ file_processed' = file_processed
             /\ file_replies' = file_replies]_vars

\* a process started after a kill has loaded ids and keys that the killed
\* process had saved
C34_Witness ==
  /\ runs = 2
  /\ prev.killed
  /\ pc = "search"
  /\ processed_emails # {} /\ processed_emails = file_processed
  /\ sent_reply_emails # {} /\ sent_reply_emails = file_replies

\* C35: with a mailbox that does not change and runs in which the
\* connection, the search and every fetch succeed, every id that the search
\* returns is recorded as processed at some time.
C35_EventuallyProcessed ==
  <>(\A i \in 1..arrived : IdStr(i) \in file_processed)

\* the ids of the batch, the last BatchCap ids of the search result, are
\* recorded at some time
C35_BatchEventuallyProcessed ==
  <>(\A i \in 1..arrived : i > arrived - BatchCap => IdStr(i) \in file_processed)

\* an id before the batch is not recorded whatever the number of runs: the
\* batch of a run depends on the search result only
C35_BatchOfWindow ==
  [][pc' = "loop" /\ pc = "search"
       => email_ids' = LastN([i \in 1..arrived |-> i], BatchCap)]_vars

\* C36: a run over a search result ends.  The loop head is reached at the
\* first id after the search and at the next id after every skip, failed
\* fetch or recorded attempt, the position and the batch do not change in
\* between, and a run that has a batch ends only behind its last id or at
\* a fetch that raises; a run that is in the loop is over at some time.
C36_RunTerminates ==
  /\ [][pc # "down" =>
          /\ pc' = "loop" => idx' = (IF pc = "search" THEN 1 ELSE idx + 1)
          /\ pc' \notin {"loop", "down"} => idx' = idx
          /\ pc # "search" /\ pc' # "down" => email_ids' = email_ids
          /\ pc # "search" /\ pc' = "down" =>
               \/ pc = "loop" /\ idx = Len(email_ids) + 1
               \/ pc = "fetch" /\ faults' = faults + 1 /\ ~prev'.clean]_vars
  /\ (pc = "loop") ~> (pc = "down")

\* a run over two ids has recorded the first and ended at the fetch of the
\* second, which raised
C36_Witness ==
  /\ pc = "down"
  /\ prev.at = "fetch"
  /\ Len(prev.window) = 2
  /\ IdStr(1) \in file_processed
  /\ IdStr(2) \notin file_processed
  /\ hist[2].fetch = 1

\* C37: the rubric total before the cap is at most 10, each dimension
\* staying within its maximum (3, 2, 2, 1, 2), whatever the CV text and
\* the requirements are; the score differs from that total only under a
\* max_score below 10.
C37_RawTotalAtMostTen ==
  pc = "rubric_done"
    => LET p == cand.parts
           raw == p.required + p.preferred + p.experience + p.education + p.keywords
       IN /\ p.required \in 0..3
          /\ p.preferred \in 0..2
          /\ p.experience \in 0..2
          /\ p.education \in 0..1
          /\ p.keywords \in 0..2
          /\ raw = RawScore(Lower(cand.cv_content), requirements)
          /\ raw <= 10
          /\ cand.score # raw => config.max_score < 10
          /\ config.max_score >= 10 => cand.score = raw

\* every dimension has given its maximum, the total is 10 and a max_score
\* of 9 has cut the score to 9
C37_Witness ==
  /\ pc = "rubric_done"
  /\ cand.parts = [required |-> 3, preferred |-> 2, experience |-> 2,
                   education |-> 1, keywords |-> 2]
  /\ requirements.min_experience > 0
  /\ config.max_score = 9
  /\ cand.score = 9

====
